---- MODULE Spec2Model ----
(***************************************************************************)
(* A model of the multi-provider AI request gateway:                       *)
(*   - makeApiCall, the retrying upstream caller of the chatbot routes;    *)
(*   - getRandomApiKey, the draw from a per-provider credential pool;      *)
(*   - the Zhenbah Hub backend: rate limiter, auth middleware and the      *)
(*     prefix-routed /v1 handlers.                                          *)
(***************************************************************************)
EXTENDS Integers, Sequences, FiniteSets, TLC

VARIABLES
    cpc,        \* makeApiCall: "idle" | "fetch" | "wait" | "returned" | "thrown"
    maxRetries, \* makeApiCall: its maxRetries parameter
    attempt,    \* makeApiCall: the loop variable
    result,     \* makeApiCall: what the caller gets (a Response or a thrown error)
    events,     \* history: the fetches issued and the timers set, in order
    outcomes,   \* history: what the upstream answered to each fetch, in order
    env,        \* chatbot: process.env as the route module read it when loaded
    hpc,        \* chatbot: where the POST handler stands
    hreq,       \* chatbot: the request body being served
    response,   \* chatbot chat route: the parts of `response`, in order
    imageUrl,   \* chatbot image route: `imageUrl`
    hres,       \* chatbot: the NextResponse sent (status 0: none yet)
    draws,      \* history: each getRandomApiKey call (pool, index, value returned)
    calls,      \* history: each makeApiCall of a handler (provider, credential sent)
    errors,     \* history: the errors thrown inside the handler, in order
    waiting,    \* chatbot: the requests suspended at an await while another runs
    nodeEnv,    \* hub: process.env.NODE_ENV
    configured, \* hub: the names of the process.env variables that are set
    store,      \* hub: the APIKey collection
    hits,       \* hub: the rate limiter's counter of each source IP
    windowStart,\* hub: when the limiter's current window began (ms)
    now,        \* hub: the clock (ms)
    gpc,        \* hub: where the request being served stands
    greq,       \* hub: the request being served
    gres,       \* hub: the response sent to it (status 0: none yet)
    guser,      \* hub: req.user
    ran,        \* history: the middleware and handlers this request entered
    sent,       \* history: the upstream requests issued for this request
    arrivals,   \* history: the requests each IP made in the current window
    admitted,   \* history: those of them the limiter let through
    limited,    \* history: the IPs the limiter has refused at some time
    others,     \* hub: the requests suspended at an await while another is served
    models,     \* hub: the table of models.json
    payload,    \* hub: the data of the response sent (<<>>: none)
    conversationHistory, \* chatbot memory route: the module's message array
    pushed,     \* history: how many messages were ever pushed (numbers them)
    memOps,     \* history: how many operations have changed the memory
    mres        \* chatbot memory route: the last request and its response

callVars == <<cpc, maxRetries, attempt, result, events, outcomes>>
botVars == <<env, hpc, hreq, response, imageUrl, hres, draws, calls, errors, waiting>>
hubVars == <<nodeEnv, configured, store, hits, windowStart, now, gpc, greq, gres,
             guser, ran, sent, arrivals, admitted, limited, others, models, payload>>
memVars == <<conversationHistory, pushed, memOps, mres>>
vars == <<callVars, botVars, hubVars, memVars>>

(***************************************************************************)
(* Bounds of the model.                                                    *)
(***************************************************************************)
MaxRetriesBound == 4
\* How many of the numbered *_API_KEY_n variables the model gives a pool
\* (the code reads 10 for A4F and 18 for Sarvam).
EnvSlots == 3
\* Math.random() is drawn from {0, 1/R, ..., (R-1)/R} with R = RandomResolution.
RandomResolution == 4
\* The rate-limited hub serves at most RateLimitMax + MaxOver requests of one IP
\* in one window, and the clock stops after MaxTicks ticks.
MaxOver == 2
MaxTicks == 3
\* The routing hub (rate limiting skipped) serves at most MaxRouted requests.
MaxRouted == 2
\* The lists of models.json hold at most MaxListed model names each.
MaxListed == 2
\* While one request is served at most MaxSuspended others wait at an await.
MaxSuspended == 2
\* GET /v1/models is served at most MaxListings times.
MaxListings == 1
\* With requests of both programs in flight the chatbot draws at most MaxDraws keys.
MaxDraws == 2

(***************************************************************************)
(* makeApiCall (chatbot/src/app/api/chat, image, search routes: the same   *)
(* seventeen lines in each).                                               *)
(***************************************************************************)
DefaultMaxRetries == 3
BaseDelayMs == 1000

\* The upstream's possible answers to one fetch: a Response with a status, or a
\* thrown transport-level exception.
Statuses == {200, 201, 204, 400, 401, 404, 429, 500, 503}
TransportErrors == {"ECONNREFUSED", "ENOTFOUND"}
NoResult == [kind |-> "none", status |-> 0, error |-> ""]
Response(s) == [kind |-> "response", status |-> s, error |-> ""]
Thrown(e) == [kind |-> "thrown", status |-> 0, error |-> e]
Outcomes == {Response(s) : s \in Statuses} \cup {Thrown(e) : e \in TransportErrors}
MaxRetriesExceeded == "Max retries exceeded"

AttemptEv(n) == [type |-> "attempt", n |-> n]
WaitEv(ms) == [type |-> "wait", n |-> ms]

\* response.ok
IsOk(status) == status >= 200 /\ status <= 299

\* if (response.ok || response.status !== 429) return response;
ReturnsImmediatelyMutOkOnly(status) == IsOk(status)
ReturnsImmediately(status) == IsOk(status) \/ status # 429

\* setTimeout(resolve, 1000 * attempt)
BackoffDelayMutConstant(a) == BaseDelayMs
BackoffDelay(a) == BaseDelayMs * a

\* for (...; attempt <= maxRetries; ...)
LoopCondMutStrict(a, mr) == a < mr
LoopCond(a, mr) == a <= mr

\* if (attempt < maxRetries) await <timer>   (after a 429)
WaitsAfter429MutAlways(a, mr) == TRUE
WaitsAfter429(a, mr) == a < mr

\* if (attempt === maxRetries) throw error;  (in the catch block)
RethrowsMutNever(a, mr) == FALSE
RethrowsMutEarly(a, mr) == a >= mr - 1
Rethrows(a, mr) == a = mr

\* The loop header, entered with attempt = a: either the next fetch is issued or
\* the loop ends and `throw new Error('Max retries exceeded')` runs.
EnterLoop(a, mr) ==
    /\ attempt' = a
    /\ IF LoopCond(a, mr)
         THEN /\ cpc' = "fetch"
              /\ result' = NoResult
         ELSE /\ cpc' = "thrown"
              /\ result' = Thrown(MaxRetriesExceeded)

\* makeApiCall(url, options, mr) is entered: let attempt = 1 and the loop header.
CallBegin(mr) ==
    /\ maxRetries' = mr
    /\ EnterLoop(1, mr)
    /\ UNCHANGED <<events, outcomes>>

CallStart(mr) ==
    /\ cpc = "idle"
    /\ CallBegin(mr)

\* One pass of the loop body: the fetch of this attempt and what the code does
\* with its outcome o, up to the next await (a timer) or the end of the call.
CallFetch(o) ==
    /\ cpc = "fetch"
    /\ outcomes' = Append(outcomes, o)
    /\ UNCHANGED maxRetries
    /\ IF o.kind = "response"
         THEN IF ReturnsImmediately(o.status)
                THEN /\ cpc' = "returned"
                     /\ result' = o
                     /\ events' = Append(events, AttemptEv(attempt))
                     /\ UNCHANGED attempt
                ELSE IF WaitsAfter429(attempt, maxRetries)
                       THEN /\ cpc' = "wait"
                            /\ events' = events \o
                                 <<AttemptEv(attempt), WaitEv(BackoffDelay(attempt))>>
                            /\ UNCHANGED <<attempt, result>>
                       ELSE /\ events' = Append(events, AttemptEv(attempt))
                            /\ EnterLoop(attempt + 1, maxRetries)
         ELSE IF Rethrows(attempt, maxRetries)
                THEN /\ cpc' = "thrown"
                     /\ result' = o
                     /\ events' = Append(events, AttemptEv(attempt))
                     /\ UNCHANGED attempt
                ELSE /\ cpc' = "wait"
                     /\ events' = events \o
                          <<AttemptEv(attempt), WaitEv(BackoffDelay(attempt))>>
                     /\ UNCHANGED <<attempt, result>>

\* The backoff timer fires: attempt++ and the loop header again.
CallWaitDone ==
    /\ cpc = "wait"
    /\ UNCHANGED <<maxRetries, events, outcomes>>
    /\ EnterLoop(attempt + 1, maxRetries)

(***************************************************************************)
(* SpecCall: makeApiCall alone, for every maxRetries in 0..MaxRetriesBound *)
(* and every sequence of upstream outcomes.                                *)
(***************************************************************************)
CallIdle ==
    /\ cpc = "idle"
    /\ maxRetries = DefaultMaxRetries
    /\ attempt = 0
    /\ result = NoResult
    /\ events = <<>>
    /\ outcomes = <<>>

Undefined == "<undefined>"
Null == "<null>"
NoRequest == [route |-> "none", hasModes |-> FALSE, modes |-> {}, files |-> 0,
              image |-> FALSE, isUncontent |-> FALSE, useImagen3 |-> FALSE]
NoResponse == [status |-> 0, error |-> "", details |-> ""]

BotIdle ==
    /\ env = [a4f |-> <<>>, sarvam |-> <<>>, infip |-> Undefined]
    /\ hpc = "idle"
    /\ hreq = NoRequest
    /\ response = <<>>
    /\ imageUrl = ""
    /\ hres = NoResponse
    /\ draws = <<>>
    /\ calls = <<>>
    /\ errors = <<>>
    /\ waiting = <<>>

NoHubRequest == [ip |-> "", path |-> "", auth |-> "<undefined>",
                 body |-> [hasModel |-> FALSE, model |-> "", hasMessages |-> FALSE]]

HubIdle ==
    /\ nodeEnv = "production"
    /\ configured = {}
    /\ store = {}
    /\ hits = [ip \in {"10.0.0.1", "10.0.0.2"} |-> 0]
    /\ arrivals = [ip \in {"10.0.0.1", "10.0.0.2"} |-> 0]
    /\ admitted = [ip \in {"10.0.0.1", "10.0.0.2"} |-> 0]
    /\ limited = {}
    /\ others = <<>>
    /\ models = <<>>
    /\ payload = <<>>
    /\ windowStart = 0
    /\ now = 0
    /\ gpc = "idle"
    /\ greq = NoHubRequest
    /\ gres = [status |-> 0, error |-> ""]
    /\ guser = "<undefined>"
    /\ ran = <<>>
    /\ sent = <<>>

NoMemRes == [op |-> "none", limit |-> Null, isArray |-> FALSE, batch |-> <<>>,
             status |-> 0, list |-> <<>>, total |-> 0]

MemIdle ==
    /\ conversationHistory = <<>>
    /\ pushed = 0
    /\ memOps = 0
    /\ mres = NoMemRes

InitCall == CallIdle /\ BotIdle /\ HubIdle /\ MemIdle

StartAnyCall ==
    (\E mr \in 0..MaxRetriesBound : CallStart(mr)) /\ UNCHANGED <<botVars, hubVars, memVars>>
FetchAny == (\E o \in Outcomes : CallFetch(o)) /\ UNCHANGED <<botVars, hubVars, memVars>>
WaitDone == CallWaitDone /\ UNCHANGED <<botVars, hubVars, memVars>>

NextCall == StartAnyCall \/ FetchAny \/ WaitDone

SpecCall == InitCall /\ [][NextCall]_vars

(***************************************************************************)
(* Properties of makeApiCall (checked under SpecCall).                     *)
(***************************************************************************)
Attempts == {p \in 1..Len(events) : events[p].type = "attempt"}
Waits == SelectSeq(events, LAMBDA e : e.type = "wait")
LastOutcome == outcomes[Len(outcomes)]
Finished == cpc \in {"returned", "thrown"}
IsTransient(o) == o.kind = "thrown" \/ o = Response(429)
AllRateLimited == \A i \in 1..Len(outcomes) : outcomes[i] = Response(429)
AllTransient == \A i \in 1..Len(outcomes) : IsTransient(outcomes[i])

C4_Non429ReturnsImmediately ==
    /\ \A i \in 1..Len(outcomes) :
           (outcomes[i].kind = "response" /\ outcomes[i].status # 429)
               => /\ i = Len(outcomes)
                  /\ cpc = "returned"
                  /\ result = outcomes[i]
                  /\ Cardinality(Attempts) = i
                  /\ events[Len(events)] = AttemptEv(i)
    /\ (outcomes = <<Response(400)>>) => (events = <<AttemptEv(1)>>)

C4_Witness ==
    /\ cpc = "returned"
    /\ maxRetries = 3
    /\ outcomes = <<Response(400)>>

C6_ExceptionRetriedThenPropagates ==
    \A i \in 1..Len(outcomes) :
        /\ (IsTransient(outcomes[i]) /\ i < maxRetries)
               => /\ \E p \in 1..Len(events) :
                         /\ events[p] = AttemptEv(i)
                         /\ Len(events) >= p + 1
                         /\ events[p + 1] = WaitEv(i * 1000)
                         /\ Len(events) >= p + 2 => events[p + 2] = AttemptEv(i + 1)
                  /\ i = Len(outcomes) =>
                         \/ cpc = "wait" /\ attempt = i
                         \/ cpc = "fetch" /\ attempt = i + 1
        /\ (outcomes[i].kind = "thrown" /\ i = maxRetries)
               => /\ i = Len(outcomes)
                  /\ cpc = "thrown"
                  /\ result = outcomes[i]
                  /\ events[Len(events)] = AttemptEv(i)
                  /\ Len(Waits) = maxRetries - 1

C6_Witness ==
    /\ maxRetries = 3
    /\ outcomes = <<Thrown("ECONNREFUSED"), Thrown("ENOTFOUND"), Thrown("ECONNREFUSED")>>
    /\ cpc = "thrown"
    /\ result = Thrown("ECONNREFUSED")

\* C7 as stated: the call either returns a Response or fails with 'Max retries
\* exceeded', so a budget used up by 429s and transport exceptions always ends in
\* 'Max retries exceeded'.
C7_OnlyResponseOrMaxRetries ==
    Finished => (result.kind = "response" \/ result = Thrown(MaxRetriesExceeded))

\* C7 as amended: the call has three kinds of outcome. It returns the Response of
\* its last fetch; or it throws 'Max retries exceeded', which happens exactly when
\* the budget is used up and the final fetch (if any) was answered 429; or it
\* throws the transport exception of its final fetch, number maxRetries.
C7_ThreeOutcomes ==
    /\ Finished =>
           \/ /\ cpc = "returned"
              /\ result.kind = "response"
              /\ result = LastOutcome
           \/ /\ cpc = "thrown"
              /\ result = Thrown(MaxRetriesExceeded)
              /\ Len(outcomes) = maxRetries
              /\ maxRetries > 0 => LastOutcome = Response(429)
           \/ /\ cpc = "thrown"
              /\ Len(outcomes) = maxRetries
              /\ maxRetries > 0
              /\ LastOutcome.kind = "thrown"
              /\ result = LastOutcome
    /\ (cpc # "idle" /\ AllTransient /\ Len(outcomes) = maxRetries)
           => /\ cpc = "thrown"
              /\ (maxRetries = 0 \/ LastOutcome = Response(429))
                     => result = Thrown(MaxRetriesExceeded)
              /\ (maxRetries > 0 /\ LastOutcome.kind = "thrown")
                     => result = LastOutcome

C7_Witness ==
    /\ maxRetries = 3
    /\ outcomes = <<Response(429), Thrown("ENOTFOUND"), Thrown("ECONNREFUSED")>>
    /\ cpc = "thrown"
    /\ result = Thrown("ECONNREFUSED")

(***************************************************************************)
(* The chatbot routes: credential pools, getRandomApiKey and the POST      *)
(* handlers of /api/chat and /api/image.                                   *)
(***************************************************************************)
\* What one numbered *_API_KEY_n variable may hold: unset, empty, or a secret.
EnvValues == {Undefined, "", "key-a", "key-b"}
EnvTables == [1..EnvSlots -> EnvValues]

\* Boolean(key): undefined and the empty string are falsy.
TruthyMutKeepEmpty(v) == v # Undefined
Truthy(v) == v # Undefined /\ v # ""

\* [process.env.X_1, ..., process.env.X_n].filter(key => Boolean(key))
FilterKeys(table) == SelectSeq(table, Truthy)

a4fKeys == FilterKeys(env.a4f)
sarvamKeys == FilterKeys(env.sarvam)
infipApiKey == env.infip

\* Math.random(): a value k / RandomResolution in [0, 1), given by its numerator.
MathRandom == 0..(RandomResolution - 1)

\* Math.floor(Math.random() * keys.length)
RandomIndexMutRound(k, len) == (2 * k * len + RandomResolution) \div (2 * RandomResolution)
RandomIndex(k, len) == (k * len) \div RandomResolution

\* keys[i] of a JavaScript array: undefined outside 0..length-1.
KeyAt(keys, i) == IF i >= 0 /\ i < Len(keys) THEN keys[i + 1] ELSE Undefined

\* function getRandomApiKey(keys), with the value k that Math.random() yields.
GetRandomApiKeyMutNoGuard(keys, k) == KeyAt(keys, RandomIndex(k, Len(keys)))
GetRandomApiKey(keys, k) ==
    IF Len(keys) = 0 THEN Null ELSE KeyAt(keys, RandomIndex(k, Len(keys)))

DrawRec(provider, keys, k) ==
    [provider |-> provider, pool |-> keys,
     index |-> IF Len(keys) = 0 THEN -1 ELSE RandomIndex(k, Len(keys)),
     key |-> GetRandomApiKey(keys, k)]

\* !key of a string | null | undefined value
Falsy(v) == v = Null \/ v = Undefined \/ v = ""

NoSarvamKeys == "No Sarvam API keys available"
NoA4FKeys == "No A4F API keys available"
A4FApiError == "A4F API error"
SarvamApiError == "Sarvam API error"
NoImage == "Failed to generate image from any service"

\* The statuses and the exception the handlers are driven with.
HandlerOutcomes == {Response(200), Response(429), Response(500), Thrown("ECONNREFUSED")}
\* What a fetch of one of the chatbot's own routes (/api/search, /api/image,
\* /api/file) can end in.
InnerOutcomes == {"ok", "not-ok", "throws"}

Json(status, error, details) == [status |-> status, error |-> error, details |-> details]

CallRec(provider, key) == [provider |-> provider, key |-> key, from |-> Len(events) + 1]

\* ---- POST /api/chat ----------------------------------------------------

SearchModes == {"deepresearch", "deepsearch", "browse"}

\* if (image) response += ...; return NextResponse.json({response, ...})
ChatFinish(req, resp) ==
    /\ response' = IF req.image THEN Append(resp, "image-analysis") ELSE resp
    /\ hres' = Json(200, "", "")
    /\ hpc' = "done"

\* if (files && files.length > 0) { ... await fetch(.../api/file) ... }
ChatAfterPrimary(req, resp) ==
    IF req.files > 0
      THEN /\ response' = resp
           /\ hpc' = "chat_file"
           /\ UNCHANGED hres
      ELSE ChatFinish(req, resp)

\* The handler from its entry to its first await.
ChatPOST(req) ==
    /\ hpc = "idle"
    /\ cpc = "idle"
    /\ hreq' = req
    /\ UNCHANGED <<env, imageUrl>>
    /\ IF ~req.hasModes
         THEN \* modes.includes(...) on undefined throws: the outer catch answers 500
              /\ errors' = Append(errors, "TypeError")
              /\ hres' = Json(500, "Internal server error", "")
              /\ hpc' = "done"
              /\ UNCHANGED <<response, draws, calls, callVars>>
         ELSE IF req.modes \cap SearchModes # {}
         THEN /\ hpc' = "chat_search"
              /\ UNCHANGED <<response, hres, draws, calls, errors, callVars>>
         ELSE IF "think" \in req.modes
         THEN /\ ChatAfterPrimary(req, <<"think">>)
              /\ UNCHANGED <<draws, calls, errors, callVars>>
         ELSE IF "image" \in req.modes
         THEN /\ hpc' = "chat_image"
              /\ UNCHANGED <<response, hres, draws, calls, errors, callVars>>
         ELSE \E k \in MathRandom :
                LET sarvamKey == GetRandomApiKey(sarvamKeys, k) IN
                /\ draws' = Append(draws, DrawRec("sarvam", sarvamKeys, k))
                /\ IF Falsy(sarvamKey)
                     THEN \* throw new Error('No Sarvam API keys available'), caught
                          \* by the catch of the same try block
                          /\ errors' = Append(errors, NoSarvamKeys)
                          /\ ChatAfterPrimary(req, <<"fallback">>)
                          /\ UNCHANGED <<calls, callVars>>
                     ELSE /\ calls' = Append(calls, CallRec("sarvam", sarvamKey))
                          /\ CallBegin(DefaultMaxRetries)
                          /\ hpc' = "chat_sarvam"
                          /\ UNCHANGED <<response, hres, errors>>

\* The fetch of /api/search resolves.
ChatSearchDone(o) ==
    /\ hpc = "chat_search"
    /\ ChatAfterPrimary(hreq,
          CASE o = "ok" -> <<"search-results">>
            [] o = "not-ok" -> <<>>
            [] OTHER -> <<"search-error">>)
    /\ errors' = IF o = "throws" THEN Append(errors, "searchError") ELSE errors
    /\ UNCHANGED <<env, hreq, imageUrl, draws, calls, callVars>>

\* The fetch of /api/image resolves.
ChatImageDone(o) ==
    /\ hpc = "chat_image"
    /\ ChatAfterPrimary(hreq,
          CASE o = "ok" -> <<"image-generated">>
            [] o = "not-ok" -> <<"image-placeholder">>
            [] OTHER -> <<"image-error">>)
    /\ errors' = IF o = "throws" THEN Append(errors, "imageError") ELSE errors
    /\ UNCHANGED <<env, hreq, imageUrl, draws, calls, callVars>>

\* makeApiCall to Sarvam has ended; bodyOk: the body parses and holds
\* choices[0].message.content.
ChatSarvamDone(bodyOk) ==
    /\ hpc = "chat_sarvam"
    /\ cpc \in {"returned", "thrown"}
    /\ cpc' = "idle"
    /\ UNCHANGED <<maxRetries, attempt, result, events, outcomes>>
    /\ UNCHANGED <<env, hreq, imageUrl, draws, calls>>
    /\ IF cpc = "returned" /\ IsOk(result.status) /\ bodyOk
         THEN /\ ChatAfterPrimary(hreq, <<"sarvam-content">>)
              /\ UNCHANGED errors
         ELSE \* every failure of the try block ends in the fallback text
              /\ errors' = Append(errors,
                     IF cpc = "thrown" THEN result.error
                     ELSE IF IsOk(result.status) THEN "TypeError" ELSE SarvamApiError)
              /\ ChatAfterPrimary(hreq, <<"fallback">>)

\* catch (fileError) { response += '... (analysis pending)' }
FilePlaceholderMutReplace(resp) == <<"files-pending">>
FilePlaceholder(resp) == Append(resp, "files-pending")

\* The fetch of /api/file resolves; bodyOk: the body parses and holds results.
ChatFileDone(o, bodyOk) ==
    /\ hpc = "chat_file"
    /\ LET failed == o = "throws" \/ (o = "ok" /\ ~bodyOk) IN
       /\ ChatFinish(hreq,
             IF o = "ok" /\ bodyOk THEN Append(response, "files-analyzed")
             ELSE IF failed THEN FilePlaceholder(response)
             ELSE response)
       /\ errors' = IF failed THEN Append(errors, "fileError") ELSE errors
    /\ UNCHANGED <<env, hreq, imageUrl, draws, calls, callVars>>

\* ---- POST /api/image ---------------------------------------------------

ImageFail(msg) ==
    /\ errors' = Append(errors, msg)
    /\ hres' = Json(500, "Image generation failed", msg)
    /\ hpc' = "done"

\* if (!imageUrl) { const a4fKey = getRandomApiKey(a4fKeys); ... makeApiCall(...)
ImageA4F ==
    \E k \in MathRandom :
      LET a4fKey == GetRandomApiKey(a4fKeys, k) IN
      /\ draws' = Append(draws, DrawRec("a4f", a4fKeys, k))
      /\ IF Falsy(a4fKey)
           THEN /\ ImageFail(NoA4FKeys)
                /\ cpc' = "idle"
                /\ UNCHANGED <<maxRetries, attempt, result, events, outcomes, calls>>
           ELSE /\ calls' = Append(calls, CallRec("a4f", a4fKey))
                /\ CallBegin(DefaultMaxRetries)
                /\ hpc' = "img_a4f"
                /\ UNCHANGED <<hres, errors>>

\* if (!imageUrl) throw ...; return NextResponse.json({success: true, ...})
ImageFinish(url) ==
    IF Falsy(url)
      THEN ImageFail(NoImage)
      ELSE /\ hres' = Json(200, "", "")
           /\ hpc' = "done"
           /\ UNCHANGED errors

\* The handler from its entry to its first await.
ImagePOST(req) ==
    /\ hpc = "idle"
    /\ cpc = "idle"
    /\ hreq' = req
    /\ imageUrl' = ""
    /\ UNCHANGED <<env, response>>
    /\ IF req.isUncontent /\ Truthy(infipApiKey)
         THEN /\ calls' = Append(calls, CallRec("infip", infipApiKey))
              /\ CallBegin(DefaultMaxRetries)
              /\ hpc' = "img_infip"
              /\ UNCHANGED <<hres, draws, errors>>
         ELSE ImageA4F

\* if (!imageUrl) { ... A4F ... }   (the guard of the fallback block)
NeedsFallbackMutAlways(url) == TRUE
NeedsFallback(url) == Falsy(url)

\* What a 2xx body of an image provider may hold.
ImageBodies == {"url", "image_url", "no-url", "no-data", "malformed"}

\* makeApiCall to Infip has ended; when it left no URL the A4F fallback starts.
ImageInfipDone(body) ==
    /\ hpc = "img_infip"
    /\ cpc \in {"returned", "thrown"}
    /\ UNCHANGED <<env, hreq, response>>
    /\ LET ok == cpc = "returned" /\ IsOk(result.status)
           url == IF ok /\ body = "url" THEN "infip-url"
                  ELSE IF ok /\ body \in {"image_url", "no-url"} THEN Undefined
                  ELSE imageUrl
           caught == cpc = "thrown" \/ (ok /\ body = "malformed")
       IN /\ imageUrl' = url
          /\ IF NeedsFallback(url)
               THEN /\ IF caught
                         THEN \E k \in MathRandom :
                                LET a4fKey == GetRandomApiKey(a4fKeys, k) IN
                                /\ draws' = Append(draws, DrawRec("a4f", a4fKeys, k))
                                /\ IF Falsy(a4fKey)
                                     THEN /\ errors' = errors \o <<"infipError", NoA4FKeys>>
                                          /\ hres' = Json(500, "Image generation failed",
                                                          NoA4FKeys)
                                          /\ hpc' = "done"
                                          /\ cpc' = "idle"
                                          /\ UNCHANGED <<maxRetries, attempt, result,
                                                         events, outcomes, calls>>
                                     ELSE /\ calls' = Append(calls, CallRec("a4f", a4fKey))
                                          /\ CallBegin(DefaultMaxRetries)
                                          /\ hpc' = "img_a4f"
                                          /\ errors' = Append(errors, "infipError")
                                          /\ UNCHANGED hres
                         ELSE ImageA4F
               ELSE /\ ImageFinish(url)
                    /\ cpc' = "idle"
                    /\ UNCHANGED <<maxRetries, attempt, result, events, outcomes,
                                   draws, calls>>

\* makeApiCall to A4F has ended.
ImageA4FDone(body) ==
    /\ hpc = "img_a4f"
    /\ cpc \in {"returned", "thrown"}
    /\ cpc' = "idle"
    /\ UNCHANGED <<maxRetries, attempt, result, events, outcomes>>
    /\ UNCHANGED <<env, hreq, response, draws, calls>>
    /\ IF cpc = "thrown"
         THEN /\ ImageFail(result.error)
              /\ UNCHANGED imageUrl
         ELSE IF ~IsOk(result.status)
         THEN /\ ImageFail(A4FApiError)
              /\ UNCHANGED imageUrl
         ELSE IF body = "malformed"
         THEN /\ ImageFail("SyntaxError")
              /\ UNCHANGED imageUrl
         ELSE LET url == CASE body = "url" -> "a4f-url"
                           [] body = "image_url" -> "a4f-image-url"
                           [] body = "no-url" -> Undefined
                           [] OTHER -> imageUrl
              IN /\ imageUrl' = url
                 /\ ImageFinish(url)

(***************************************************************************)
(* SpecChatbot: one request to /api/chat or /api/image, for every          *)
(* environment of the route module that serves it.                         *)
(***************************************************************************)
NoKeys == [i \in 1..EnvSlots |-> Undefined]

ChatRequests ==
    [route : {"chat"}, hasModes : BOOLEAN,
     modes : {{}, {"think"}, {"image"}, {"browse"}, {"deepsearch", "deepresearch"}},
     files : 0..1, image : BOOLEAN, isUncontent : {FALSE}, useImagen3 : {FALSE}]

ImageRequests ==
    [route : {"image"}, hasModes : {FALSE}, modes : {{}}, files : {0},
     image : {FALSE}, isUncontent : BOOLEAN, useImagen3 : BOOLEAN]

\* The chat route module reads the SARVAM_* variables, the image route module
\* the A4F_* ones and INFIP_API_KEY.
InitChatbot ==
    /\ CallIdle
    /\ MemIdle
    /\ HubIdle
    /\ hpc = "idle"
    /\ hreq = NoRequest
    /\ response = <<>>
    /\ imageUrl = ""
    /\ hres = NoResponse
    /\ draws = <<>>
    /\ calls = <<>>
    /\ errors = <<>>
    /\ waiting = <<>>
    /\ \/ \E t \in EnvTables : env = [a4f |-> NoKeys, sarvam |-> t, infip |-> Undefined]
       \/ \E t \in EnvTables, i \in {Undefined, "", "infip-key"} :
              env = [a4f |-> t, sarvam |-> NoKeys, infip |-> i]

ChatArrives ==
    (\E req \in ChatRequests : ChatPOST(req)) /\ UNCHANGED <<hubVars, waiting, memVars>>
ImageArrives ==
    (\E req \in ImageRequests : ImagePOST(req)) /\ UNCHANGED <<hubVars, waiting, memVars>>
SearchResolves ==
    (\E o \in InnerOutcomes : ChatSearchDone(o)) /\ UNCHANGED <<hubVars, waiting, memVars>>
ImageResolves ==
    (\E o \in InnerOutcomes : ChatImageDone(o)) /\ UNCHANGED <<hubVars, waiting, memVars>>
SarvamResolves ==
    (\E b \in BOOLEAN : ChatSarvamDone(b)) /\ UNCHANGED <<hubVars, waiting, memVars>>
FileResolves ==
    (\E o \in InnerOutcomes, b \in BOOLEAN : ChatFileDone(o, b))
        /\ UNCHANGED <<hubVars, waiting, memVars>>
InfipResolves ==
    (\E body \in ImageBodies : ImageInfipDone(body)) /\ UNCHANGED <<hubVars, waiting, memVars>>
A4FResolves ==
    (\E body \in ImageBodies : ImageA4FDone(body)) /\ UNCHANGED <<hubVars, waiting, memVars>>
\* The loop body of makeApiCall passes `options` to fetch as it received it and
\* never calls getRandomApiKey: the draws of the request stay as they are.
RetryDrawsMutRedraw(d) == IF d = <<>> THEN d ELSE Append(d, d[Len(d)])
RetryDraws(d) == d

UpstreamAnswers ==
    /\ \E o \in HandlerOutcomes : CallFetch(o)
    /\ draws' = RetryDraws(draws)
    /\ UNCHANGED <<env, hpc, hreq, response, imageUrl, hres, calls, errors, waiting,
                   hubVars, memVars>>
BackoffEnds == CallWaitDone /\ UNCHANGED <<botVars, hubVars, memVars>>

NextChatbot ==
    \/ ChatArrives
    \/ ImageArrives
    \/ SearchResolves
    \/ ImageResolves
    \/ SarvamResolves
    \/ FileResolves
    \/ InfipResolves
    \/ A4FResolves
    \/ UpstreamAnswers
    \/ BackoffEnds

SpecChatbot == InitChatbot /\ [][NextChatbot]_vars

(***************************************************************************)
(* Properties of the credential pools (checked under SpecChatbot).         *)
(***************************************************************************)
NoKeysError(provider) == IF provider = "sarvam" THEN NoSarvamKeys ELSE NoA4FKeys
Raised(msg) == \E i \in 1..Len(errors) : errors[i] = msg
Called(provider) == \E i \in 1..Len(calls) : calls[i].provider = provider

\* C8: getRandomApiKey on an empty pool returns null, and its caller then raises
\* 'No <provider> API keys available'; on a non-empty pool the index it computes
\* lies in 0..length-1 and the value it returns is an element of the pool.
C8_DrawIsMemberOrNull ==
    \A i \in 1..Len(draws) :
        LET d == draws[i] IN
        IF Len(d.pool) = 0
          THEN /\ d.key = Null
               /\ Raised(NoKeysError(d.provider))
          ELSE /\ d.index \in 0..(Len(d.pool) - 1)
               /\ \E j \in 1..Len(d.pool) : d.pool[j] = d.key
               /\ ~Raised(NoKeysError(d.provider))

C8_Witness ==
    \E i \in 1..Len(draws) :
        /\ Len(draws[i].pool) = 3
        /\ draws[i].index = 2
        /\ draws[i].key = draws[i].pool[3]
        /\ draws[i].key # draws[i].pool[1]

StartsWithMutIncludes(s, p) ==
    \E i \in 1..(Len(s) + 1) : i + Len(p) - 1 <= Len(s) /\ SubSeq(s, i, i + Len(p) - 1) = p
StartsWith(s, p) == Len(p) <= Len(s) /\ SubSeq(s, 1, Len(p)) = p

\* The first index >= i at which sep occurs in s; 0 when it does not.
RECURSIVE IndexFrom(_, _, _)
IndexFrom(s, sep, i) ==
    IF i + Len(sep) - 1 > Len(s) THEN 0
    ELSE IF SubSeq(s, i, i + Len(sep) - 1) = sep THEN i
    ELSE IndexFrom(s, sep, i + 1)

\* String.prototype.split(sep), for a non-empty sep
RECURSIVE Split(_, _)
Split(s, sep) ==
    LET i == IndexFrom(s, sep, 1) IN
    IF i = 0 THEN <<s>>
    ELSE <<SubSeq(s, 1, i - 1)>> \o Split(SubSeq(s, i + Len(sep), Len(s)), sep)

\* array[i] of a JavaScript array of strings
At(arr, i) == IF i >= 0 /\ i < Len(arr) THEN arr[i + 1] ELSE Undefined

UpperChar(c) ==
    CASE c = "a" -> "A" [] c = "b" -> "B" [] c = "c" -> "C" [] c = "d" -> "D"
      [] c = "e" -> "E" [] c = "f" -> "F" [] c = "g" -> "G" [] c = "h" -> "H"
      [] c = "i" -> "I" [] c = "j" -> "J" [] c = "k" -> "K" [] c = "l" -> "L"
      [] c = "m" -> "M" [] c = "n" -> "N" [] c = "o" -> "O" [] c = "p" -> "P"
      [] c = "q" -> "Q" [] c = "r" -> "R" [] c = "s" -> "S" [] c = "t" -> "T"
      [] c = "u" -> "U" [] c = "v" -> "V" [] c = "w" -> "W" [] c = "x" -> "X"
      [] c = "y" -> "Y" [] c = "z" -> "Z" [] OTHER -> c

\* String.prototype.toUpperCase
RECURSIVE ToUpperCase(_)
ToUpperCase(s) ==
    IF Len(s) = 0 THEN ""
    ELSE UpperChar(SubSeq(s, 1, 1)) \o ToUpperCase(SubSeq(s, 2, Len(s)))

\* `${v}` of a string or undefined
Str(v) == IF v = Undefined THEN "undefined" ELSE v

\* process.env[name]
GetEnv(name) == IF name \in configured THEN "secret:" \o name ELSE Undefined

(***************************************************************************)
(* The /v1 route handlers, each from its entry to its axios.post: what the *)
(* handler is about to do with a request body.                             *)
(***************************************************************************)
\* axios.post(apiUrl, requestData, {headers}) is called
Call(family, url, cred, header, data) ==
    [kind |-> "call", family |-> family, url |-> url, cred |-> cred,
     header |-> header, data |-> data, status |-> 0, error |-> ""]
\* res.status(status).json({error})
RejectMutDefaultProvider(status, error) ==
    [kind |-> "call", family |-> "openai", url |-> "https://api.openai.com/v1/",
     cred |-> "", header |-> "", data |-> "req.body", status |-> 0, error |-> ""]
Reject(status, error) ==
    [kind |-> "reject", family |-> "", url |-> "", cred |-> "", header |-> "",
     data |-> "", status |-> status, error |-> error]
\* a TypeError thrown in the async handler: no response is sent
Crash ==
    [kind |-> "crash", family |-> "", url |-> "", cred |-> "", header |-> "",
     data |-> "", status |-> 0, error |-> "TypeError"]

Bearer(cred) == "Authorization: Bearer " \o Str(cred)

\* router.post('/completions') of routes/chat
ChatCompletions(body) ==
    IF ~body.hasModel THEN Crash ELSE
    LET model == body.model
        sw(p) == StartsWith(model, p)
        name == At(Split(model, "-"), 0)
    IN
    IF sw("gpt") \/ sw("text-") \/ sw("code-") \/ sw("dall-e")
      THEN Call("openai", "https://api.openai.com/v1/chat/completions",
                GetEnv("OPENAI_API_KEY"), Bearer(GetEnv("OPENAI_API_KEY")), "req.body")
    ELSE IF sw("claude")
      THEN Call("anthropic", "https://api.anthropic.com/v1/messages",
                GetEnv("ANTHROPIC_API_KEY"),
                "x-api-key: " \o Str(GetEnv("ANTHROPIC_API_KEY")), "anthropic")
    ELSE IF sw("gemini") \/ sw("palm") \/ sw("bert") \/ sw("t5")
      THEN IF ~body.hasMessages THEN Crash ELSE
           Call("google",
                "https://generativelanguage.googleapis.com/v1beta/models/" \o model
                    \o ":generateContent?key=" \o Str(GetEnv("GOOGLE_API_KEY")),
                GetEnv("GOOGLE_API_KEY"), "", "google")
    ELSE IF sw("llama") \/ sw("codellama")
      THEN Call("meta", "https://api.meta.ai/v1/chat/completions",
                GetEnv("META_API_KEY"), Bearer(GetEnv("META_API_KEY")), "req.body")
    ELSE IF sw("command") \/ sw("base")
      THEN Call("cohere", "https://api.cohere.ai/v1/chat",
                GetEnv("COHERE_API_KEY"), Bearer(GetEnv("COHERE_API_KEY")), "req.body")
    ELSE IF sw("mistral") \/ sw("mixtral") \/ sw("codestral")
      THEN Call("mistral", "https://api.mistral.ai/v1/chat/completions",
                GetEnv("MISTRAL_API_KEY"), Bearer(GetEnv("MISTRAL_API_KEY")), "req.body")
    ELSE IF sw("qwen")
      THEN Call("qwen", "https://api.qwen.ai/v1/chat/completions",
                GetEnv("QWEN_API_KEY"), Bearer(GetEnv("QWEN_API_KEY")), "req.body")
    ELSE IF sw("deepseek") \/ sw("starcoder") \/ sw("phi") \/ sw("falcon") \/ sw("yi")
      THEN Call("other", "https://api." \o name \o ".ai/v1/chat/completions",
                GetEnv(ToUpperCase(name) \o "_API_KEY"),
                Bearer(GetEnv(ToUpperCase(name) \o "_API_KEY")), "req.body")
    ELSE Reject(400, "Unsupported model")

\* router.post('/generations') of routes/images
ImageGenerations(body) ==
    IF ~body.hasModel THEN Crash ELSE
    LET model == body.model
        sw(p) == StartsWith(model, p)
    IN
    IF sw("dall-e")
      THEN Call("openai", "https://api.openai.com/v1/images/generations",
                GetEnv("OPENAI_API_KEY"), Bearer(GetEnv("OPENAI_API_KEY")), "dall-e")
    ELSE IF sw("stable-diffusion")
      THEN Call("stability",
                "https://api.stability.ai/v1/generation/stable-diffusion-xl-1024-v1-0/text-to-image",
                GetEnv("STABILITY_API_KEY"), Bearer(GetEnv("STABILITY_API_KEY")),
                "stability")
    ELSE IF sw("midjourney")
      THEN Call("midjourney", "https://api.midjourney.com/v1/imagine",
                GetEnv("MIDJOURNEY_API_KEY"), Bearer(GetEnv("MIDJOURNEY_API_KEY")),
                "prompt")
    ELSE IF sw("imagen")
      THEN Call("google",
                "https://generativelanguage.googleapis.com/v1beta/models/imagen-3.0-generate-001:predict?key="
                    \o Str(GetEnv("GOOGLE_API_KEY")),
                GetEnv("GOOGLE_API_KEY"), "", "prompt")
    ELSE IF sw("flux")
      THEN Call("flux", "https://api.flux.ai/v1/images/generations",
                GetEnv("FLUX_API_KEY"), Bearer(GetEnv("FLUX_API_KEY")), "prompt-size")
    ELSE IF sw("kandinsky")
      THEN Call("kandinsky", "https://api.kandinsky.ai/v1/images/generations",
                GetEnv("KANDINSKY_API_KEY"), Bearer(GetEnv("KANDINSKY_API_KEY")),
                "prompt")
    ELSE Reject(400, "Unsupported image model")

\* router.post('/edits') of routes/images
ImageEdits(body) ==
    IF ~body.hasModel THEN Crash ELSE
    IF StartsWith(body.model, "dall-e")
      THEN Call("openai", "https://api.openai.com/v1/images/edits",
                GetEnv("OPENAI_API_KEY"), Bearer(GetEnv("OPENAI_API_KEY")), "req.body")
      ELSE Reject(400, "Image editing not supported for this model")

\* router.post('/variations') of routes/images
ImageVariations(body) ==
    IF ~body.hasModel THEN Crash ELSE
    IF StartsWith(body.model, "dall-e")
      THEN Call("openai", "https://api.openai.com/v1/images/variations",
                GetEnv("OPENAI_API_KEY"), Bearer(GetEnv("OPENAI_API_KEY")), "req.body")
      ELSE Reject(400, "Image variations not supported for this model")

\* router.post('/transcriptions') of routes/audio
AudioTranscriptions(body) ==
    IF ~body.hasModel THEN Crash ELSE
    IF StartsWith(body.model, "whisper")
      THEN Call("openai", "https://api.openai.com/v1/audio/transcriptions",
                GetEnv("OPENAI_API_KEY"), Bearer(GetEnv("OPENAI_API_KEY")), "req.body")
    ELSE IF StartsWith(body.model, "google")
      THEN Call("google",
                "https://speech.googleapis.com/v1/speech:recognize?key="
                    \o Str(GetEnv("GOOGLE_API_KEY")),
                GetEnv("GOOGLE_API_KEY"), "", "req.body")
    ELSE Reject(400, "Unsupported transcription model")

\* router.post('/translations') of routes/audio
AudioTranslations(body) ==
    IF ~body.hasModel THEN Crash ELSE
    IF StartsWith(body.model, "whisper")
      THEN Call("openai", "https://api.openai.com/v1/audio/translations",
                GetEnv("OPENAI_API_KEY"), Bearer(GetEnv("OPENAI_API_KEY")), "req.body")
      ELSE Reject(400, "Audio translation not supported for this model")

\* router.post('/speech') of routes/audio
AudioSpeech(body) ==
    IF ~body.hasModel THEN Crash ELSE
    IF StartsWith(body.model, "tts")
      THEN Call("openai", "https://api.openai.com/v1/audio/speech",
                GetEnv("OPENAI_API_KEY"), Bearer(GetEnv("OPENAI_API_KEY")), "tts")
    ELSE IF StartsWith(body.model, "eleven")
      THEN Call("elevenlabs",
                "https://api.elevenlabs.io/v1/text-to-speech/21m00Tcm4TlvDq8ikWAM",
                GetEnv("ELEVENLABS_API_KEY"),
                "xi-api-key: " \o Str(GetEnv("ELEVENLABS_API_KEY")), "elevenlabs")
    ELSE IF StartsWith(body.model, "google")
      THEN Call("google",
                "https://texttospeech.googleapis.com/v1/text:synthesize?key="
                    \o Str(GetEnv("GOOGLE_API_KEY")),
                GetEnv("GOOGLE_API_KEY"), "", "google-tts")
    ELSE Reject(400, "Unsupported TTS model")

\* router.post('/') of routes/embeddings
EmbeddingsMutSpecificFirst(body) ==
    IF ~body.hasModel THEN Crash ELSE
    LET model == body.model IN
    IF StartsWith(model, "text-embedding-004")
      THEN Call("google",
                "https://generativelanguage.googleapis.com/v1beta/models/text-embedding-004:embedContent?key="
                    \o Str(GetEnv("GOOGLE_API_KEY")),
                GetEnv("GOOGLE_API_KEY"), "", "google-embed")
    ELSE IF StartsWith(model, "text-embedding")
      THEN Call("openai", "https://api.openai.com/v1/embeddings",
                GetEnv("OPENAI_API_KEY"), Bearer(GetEnv("OPENAI_API_KEY")), "req.body")
    ELSE Reject(400, "Unsupported embedding model")
Embeddings(body) ==
    IF ~body.hasModel THEN Crash ELSE
    LET model == body.model IN
    IF StartsWith(model, "text-embedding")
      THEN Call("openai", "https://api.openai.com/v1/embeddings",
                GetEnv("OPENAI_API_KEY"), Bearer(GetEnv("OPENAI_API_KEY")), "req.body")
    ELSE IF StartsWith(model, "embed-")
      THEN Call("cohere", "https://api.cohere.ai/v1/embed",
                GetEnv("COHERE_API_KEY"), Bearer(GetEnv("COHERE_API_KEY")), "req.body")
    ELSE IF StartsWith(model, "text-embedding-004")
      THEN Call("google",
                "https://generativelanguage.googleapis.com/v1beta/models/text-embedding-004:embedContent?key="
                    \o Str(GetEnv("GOOGLE_API_KEY")),
                GetEnv("GOOGLE_API_KEY"), "", "google-embed")
    ELSE IF StartsWith(model, "sentence-transformers") \/ StartsWith(model, "e5-")
      THEN Call("huggingface", "https://api-inference.huggingface.co/models/" \o model,
                GetEnv("HUGGINGFACE_API_KEY"), Bearer(GetEnv("HUGGINGFACE_API_KEY")),
                "inputs")
    ELSE Reject(400, "Unsupported embedding model")

PostRoutes ==
    {"/v1/chat/completions", "/v1/images/generations", "/v1/images/edits",
     "/v1/images/variations", "/v1/audio/transcriptions", "/v1/audio/translations",
     "/v1/audio/speech", "/v1/embeddings"}

\* The handler that app.use(...) and router.post(...) mount at a path.
Handler(path, body) ==
    CASE path = "/v1/chat/completions" -> ChatCompletions(body)
      [] path = "/v1/images/generations" -> ImageGenerations(body)
      [] path = "/v1/images/edits" -> ImageEdits(body)
      [] path = "/v1/images/variations" -> ImageVariations(body)
      [] path = "/v1/audio/transcriptions" -> AudioTranscriptions(body)
      [] path = "/v1/audio/translations" -> AudioTranslations(body)
      [] path = "/v1/audio/speech" -> AudioSpeech(body)
      [] path = "/v1/embeddings" -> Embeddings(body)

(***************************************************************************)
(* GET /v1/models: the table of models.json, flattened.                    *)
(***************************************************************************)
ModelsRoute == "/v1/models"

\* allModels.push({id, object, created, owned_by, category})
ModelEntryMutOneCategory(category, provider, model) ==
    [id |-> model, object |-> "model", owned_by |-> provider, category |-> "chat"]
ModelEntry(category, provider, model) ==
    [id |-> model, object |-> "model", owned_by |-> provider, category |-> category]

\* models[category][provider].forEach(model => allModels.push(...))
RECURSIVE EachModel(_, _, _, _)
EachModel(category, provider, list, i) ==
    IF i > Len(list) THEN <<>>
    ELSE <<ModelEntry(category, provider, list[i])>>
             \o EachModel(category, provider, list, i + 1)

\* Object.keys(models[category]).forEach(provider => ...)
RECURSIVE EachProvider(_, _, _)
EachProvider(category, providers, j) ==
    IF j > Len(providers) THEN <<>>
    ELSE EachModel(category, providers[j].key, providers[j].value, 1)
             \o EachProvider(category, providers, j + 1)

\* Object.keys(models).forEach(category => ...)
RECURSIVE EachCategory(_, _)
EachCategory(table, k) ==
    IF k > Len(table) THEN <<>>
    ELSE EachProvider(table[k].key, table[k].value, 1) \o EachCategory(table, k + 1)

ListModels(table) == EachCategory(table, 1)

(***************************************************************************)
(* The hub's middleware: the rate limiter and auth.                        *)
(***************************************************************************)
\* max: 100
RateLimitMax == 100
\* windowMs: 15 * 60 * 1000
windowMs == 15 * 60 * 1000
\* The clock advances in steps of five minutes.
TickMs == 5 * 60 * 1000

IPs == {"10.0.0.1", "10.0.0.2"}

\* skip: (req) => process.env.NODE_ENV === 'development'
LimiterSkipMutAlways == TRUE
LimiterSkipMutNever == FALSE
LimiterSkip == nodeEnv = "development"

\* A request is refused once its IP's hits in the window exceed max.
LimiterExceedsMutOffByOne(totalHits) == totalHits > RateLimitMax + 1
LimiterExceeds(totalHits) == totalHits > RateLimitMax

\* The limiter counts per source IP (no keyGenerator is configured).
KeyGeneratorMutShared(req) == "10.0.0.1"
KeyGenerator(req) == req.ip

\* The store adds one hit to the key's count, within one turn of the event loop.
IncrementMutLost(n) == n
Increment(n) == n + 1

HubRes(status, error) == [status |-> status, error |-> error]
NoHubRes == HubRes(0, "")

\* if (!authHeader || !authHeader.startsWith('Bearer '))
AuthHeaderOkMutAnyScheme(authHeader) == authHeader # Undefined
AuthHeaderOk(authHeader) == authHeader # Undefined /\ StartsWith(authHeader, "Bearer ")

\* authHeader.split(' ')[1]
BearerKey(authHeader) == At(Split(authHeader, " "), 1)

\* APIKey.findOne({ key })
FindOneMutAny(key) == CHOOSE k \in store : TRUE
FindOne(key) ==
    IF \E k \in store : k.key = key
      THEN CHOOSE k \in store : k.key = key
      ELSE [id |-> 0, user |-> Null, key |-> Null]

(***************************************************************************)
(* The hub serving one request at a time: the middleware chain of          *)
(* server.js, then the router of the path.                                 *)
(***************************************************************************)
HubEnd(res) ==
    /\ gres' = res
    /\ gpc' = "done"

\* ---- routes/keys ----------------------------------------------------------
RootRoute == "/"
AuthRoute == "/auth"
\* GET /keys, POST /keys and DELETE /keys/:id; the :id of a request is its field id
KeysRoute == "/keys"
AuthRouteStatuses == {200, 400, 401, 500}

\* req.headers.authorization?.split(' ')[1]
TokenOf(authorization) ==
    IF authorization = Undefined THEN Undefined ELSE At(Split(authorization, " "), 1)

\* jwt.verify(token, process.env.JWT_SECRET, ...): the id the token carries when
\* its signature and expiry are good, Null when verification fails.
JwtVerify(token) ==
    CASE token = "jwt-user-1" -> "user-1"
      [] token = "jwt-user-2" -> "user-2"
      [] OTHER -> Null

\* The states in which routes/keys waits for the database.
KeysAwaits == {"keys_find", "keys_save", "keys_delete"}

\* router.use(verifyToken), then the route of the method up to its await.
KeysEnter(req) ==
    LET token == TokenOf(req.auth) IN
    /\ payload' = <<>>
    /\ IF Falsy(token)
         THEN /\ ran' = <<"limiter", "verifyToken">>
              /\ HubEnd(HubRes(401, "No token"))
              /\ guser' = Undefined
         ELSE IF JwtVerify(token) = Null
         THEN /\ ran' = <<"limiter", "verifyToken">>
              /\ HubEnd(HubRes(401, "Invalid token"))
              /\ guser' = Undefined
         ELSE /\ ran' = <<"limiter", "verifyToken", "handler">>
              /\ guser' = JwtVerify(token)
              /\ gres' = NoHubRes
              /\ gpc' = CASE req.method = "GET" -> "keys_find"
                          [] req.method = "POST" -> "keys_save"
                          [] OTHER -> "keys_delete"

\* APIKey.find({ user: req.userId })
KeysOf(user) == {k \in store : k.user = user}

\* key: { type: String, required: true, unique: true }: save() rejects a
\* document whose key is already stored.
UniqueIndexMutNone(key) == TRUE
UniqueIndex(key) == \A k \in store : k.key # key

\* The filter { _id: req.params.id, user: req.userId } of findOneAndDelete
DeleteFilterMutAnyOwner(k, id, user) == k.id = id
DeleteFilter(k, id, user) == k.id = id /\ k.user = user

\* A string that is no ObjectId makes the query reject with a CastError.
ValidObjectId(id) == id > 0

\* The _id of a new document: never one that was given out before.
NewObjectId == 10 + arrivals["10.0.0.1"] + arrivals["10.0.0.2"]

\* The database answers the query of routes/keys (dbOk) or the query rejects.
KeysDbDone(dbOk) ==
    /\ gpc \in KeysAwaits
    /\ UNCHANGED <<nodeEnv, configured, hits, windowStart, now, greq, guser, ran, sent,
                   arrivals, admitted, limited, others, models>>
    /\ CASE gpc = "keys_find" ->
             /\ UNCHANGED store
             /\ IF dbOk
                  THEN /\ HubEnd(HubRes(200, ""))
                       /\ payload' = <<KeysOf(guser)>>
                  ELSE /\ HubEnd(HubRes(500, "error.message"))
                       /\ payload' = <<>>
         [] gpc = "keys_save" ->
             /\ payload' = <<>>
             /\ IF dbOk /\ UniqueIndex(greq.rand)
                  THEN /\ store' = store \cup
                            {[id |-> NewObjectId, user |-> guser, key |-> greq.rand]}
                       /\ HubEnd(HubRes(200, ""))
                  ELSE /\ UNCHANGED store
                       /\ HubEnd(HubRes(500, "error.message"))
         [] OTHER ->
             /\ payload' = <<>>
             /\ IF dbOk /\ ValidObjectId(greq.id)
                  THEN /\ store' = {k \in store : ~DeleteFilter(k, greq.id, guser)}
                       /\ HubEnd(HubRes(200, "Key deleted"))
                  ELSE /\ UNCHANGED store
                       /\ HubEnd(HubRes(500, "error.message"))

\* A request arrives: app.use(limiter), then the router of its path (for /v1:
\* router.use(auth)) up to its await.
\* cap bounds the requests one IP makes in one window.
HubArrive(req, cap) ==
    /\ gpc = "idle"
    /\ arrivals[req.ip] < cap
    /\ arrivals' = [arrivals EXCEPT ![req.ip] = @ + 1]
    /\ greq' = req
    /\ sent' = <<>>
    /\ UNCHANGED <<nodeEnv, configured, store, windowStart, now, others, models>>
    /\ LET totalHits == Increment(hits[KeyGenerator(req)])
           refused == ~LimiterSkip /\ LimiterExceeds(totalHits)
       IN
       /\ hits' = IF LimiterSkip THEN hits ELSE [hits EXCEPT ![KeyGenerator(req)] = totalHits]
       /\ admitted' = IF refused THEN admitted ELSE [admitted EXCEPT ![req.ip] = @ + 1]
       /\ limited' = IF refused THEN limited \cup {req.ip} ELSE limited
       /\ IF refused
            THEN /\ ran' = <<"limiter">>
                 /\ HubEnd(HubRes(429, "Too many requests, please try again later."))
                 /\ payload' = <<>>
                 /\ guser' = Undefined
            ELSE IF req.path = ModelsRoute
            THEN /\ ran' = <<"limiter", "handler">>
                 /\ HubEnd(HubRes(200, ""))
                 /\ payload' = ListModels(models)
                 /\ guser' = Undefined
            ELSE IF req.path = RootRoute
            THEN /\ ran' = <<"limiter", "handler">>
                 /\ HubEnd(HubRes(200, ""))
                 /\ payload' = <<"Zhenbah Hub API is running">>
                 /\ guser' = Undefined
            ELSE IF req.path = AuthRoute
            THEN \* routes/auth is mounted after the limiter; what it answers is
                 \* not determined here
                 /\ ran' = <<"limiter", "handler">>
                 /\ \E status \in AuthRouteStatuses : HubEnd(HubRes(status, ""))
                 /\ payload' = <<>>
                 /\ guser' = Undefined
            ELSE IF req.path = KeysRoute
            THEN KeysEnter(req)
            ELSE IF ~AuthHeaderOk(req.auth)
            THEN /\ ran' = <<"limiter", "auth">>
                 /\ HubEnd(HubRes(401, "Unauthorized"))
                 /\ payload' = <<>>
                 /\ guser' = Undefined
            ELSE /\ ran' = <<"limiter", "auth">>
                 /\ gpc' = "auth"
                 /\ gres' = NoHubRes
                 /\ payload' = <<>>
                 /\ guser' = Undefined

\* The handler reads the req it was called with.
HandlerRequestMutShared(req, suspended) ==
    IF suspended = <<>> THEN req ELSE suspended[Len(suspended)].req
HandlerRequest(req, suspended) == req

\* The handler runs from its entry to its axios.post (or to its response).
HubHandle ==
    LET own == HandlerRequest(greq, others)
        plan == Handler(own.path, own.body)
    IN
    CASE plan.kind = "call" ->
           /\ ran' = ran \o <<"handler", "upstream">>
           /\ sent' = Append(sent, plan)
           /\ gpc' = "upstream"
           /\ gres' = NoHubRes
      [] plan.kind = "reject" ->
           /\ ran' = Append(ran, "handler")
           /\ HubEnd(HubRes(plan.status, plan.error))
           /\ UNCHANGED sent
      [] OTHER ->
           \* the async handler's promise rejects: Express 4 leaves the request
           \* unanswered, Express 5 hands the error to its default error handler
           /\ ran' = Append(ran, "handler")
           /\ UNCHANGED sent
           /\ \/ gpc' = "hung" /\ gres' = NoHubRes
              \/ HubEnd(HubRes(500, "Internal Server Error"))

\* APIKey.findOne resolves (dbOk) or rejects; on a match next() runs the handler.
HubAuthLookup(dbOk) ==
    /\ gpc = "auth"
    /\ UNCHANGED <<nodeEnv, configured, store, hits, windowStart, now, greq, arrivals,
                   admitted, limited, others, models, payload>>
    /\ LET apiKey == FindOne(BearerKey(greq.auth)) IN
       IF ~dbOk
         THEN /\ HubEnd(HubRes(500, "Server error"))
              /\ UNCHANGED <<guser, ran, sent>>
         ELSE IF apiKey.key = Null
         THEN /\ HubEnd(HubRes(401, "Invalid API key"))
              /\ UNCHANGED <<guser, ran, sent>>
         ELSE /\ guser' = apiKey.user
              /\ HubHandle

\* axios.post resolves (a 2xx answer) or rejects (any other answer, or no answer).
UpstreamResults == {"2xx", "error-response", "network-error"}

HubUpstreamDone(o) ==
    /\ gpc = "upstream"
    /\ UNCHANGED <<nodeEnv, configured, store, hits, windowStart, now, greq, guser,
                   ran, sent, arrivals, admitted, limited, others, models, payload>>
    /\ IF o = "2xx"
         THEN HubEnd(HubRes(200, ""))
         ELSE HubEnd(HubRes(500, IF o = "error-response" THEN "error.response.data"
                                 ELSE "error.message"))

\* The exchange is over (the response went out, or the client gave up on a
\* request that nothing answers): its request context is discarded.
HubClose ==
    /\ gpc \in {"done", "hung"}
    /\ gpc' = "idle"
    /\ greq' = NoHubRequest
    /\ gres' = NoHubRes
    /\ guser' = Undefined
    /\ ran' = <<>>
    /\ sent' = <<>>
    /\ payload' = <<>>
    /\ UNCHANGED <<nodeEnv, configured, store, hits, windowStart, now, arrivals,
                   admitted, limited, others, models>>

\* What a request that waits at an await keeps: its req, res and locals.
Context(pc, req, res, user, entered, issued) ==
    [pc |-> pc, req |-> req, res |-> res, user |-> user, ran |-> entered,
     sent |-> issued]

\* The request being served waits at its await (APIKey.findOne or axios.post)
\* and the event loop is free to take up another request.
HubSuspend ==
    /\ gpc \in {"auth", "upstream"} \cup KeysAwaits
    /\ Len(others) < MaxSuspended
    /\ others' = Append(others, Context(gpc, greq, gres, guser, ran, sent))
    /\ gpc' = "idle"
    /\ greq' = NoHubRequest
    /\ gres' = NoHubRes
    /\ guser' = Undefined
    /\ ran' = <<>>
    /\ sent' = <<>>
    /\ UNCHANGED <<nodeEnv, configured, store, hits, windowStart, now, arrivals,
                   admitted, limited, models, payload>>

\* The event loop takes up a waiting request again.
HubResume(i) ==
    /\ gpc = "idle"
    /\ i \in 1..Len(others)
    /\ gpc' = others[i].pc
    /\ greq' = others[i].req
    /\ gres' = others[i].res
    /\ guser' = others[i].user
    /\ ran' = others[i].ran
    /\ sent' = others[i].sent
    /\ others' = SubSeq(others, 1, i - 1) \o SubSeq(others, i + 1, Len(others))
    /\ UNCHANGED <<nodeEnv, configured, store, hits, windowStart, now, arrivals,
                   admitted, limited, models, payload>>

\* Five minutes pass; when the window is over the limiter's store is reset.
HubTick ==
    /\ now < MaxTicks * TickMs
    /\ now' = now + TickMs
    /\ IF now + TickMs - windowStart >= windowMs
         THEN /\ hits' = [ip \in IPs |-> 0]
              /\ arrivals' = [ip \in IPs |-> 0]
              /\ admitted' = [ip \in IPs |-> 0]
              /\ windowStart' = now + TickMs
         ELSE UNCHANGED <<hits, arrivals, admitted, windowStart>>
    /\ UNCHANGED <<nodeEnv, configured, store, gpc, greq, gres, guser, ran, sent,
                   limited, others, models, payload>>

\* The keys issued before the requests of the model arrive.
InitialStore == {[id |-> 1, user |-> "user-1", key |-> "sk-valid"]}

KnownEnv ==
    {"OPENAI_API_KEY", "ANTHROPIC_API_KEY", "GOOGLE_API_KEY", "META_API_KEY",
     "COHERE_API_KEY", "MISTRAL_API_KEY", "QWEN_API_KEY", "STABILITY_API_KEY",
     "MIDJOURNEY_API_KEY", "FLUX_API_KEY", "KANDINSKY_API_KEY", "ELEVENLABS_API_KEY",
     "HUGGINGFACE_API_KEY"}

HubStart ==
    /\ store = InitialStore
    /\ hits = [ip \in IPs |-> 0]
    /\ arrivals = [ip \in IPs |-> 0]
    /\ admitted = [ip \in IPs |-> 0]
    /\ limited = {}
    /\ others = <<>>
    /\ payload = <<>>
    /\ windowStart = 0
    /\ now = 0
    /\ gpc = "idle"
    /\ greq = NoHubRequest
    /\ gres = NoHubRes
    /\ guser = Undefined
    /\ ran = <<>>
    /\ sent = <<>>

(***************************************************************************)
(* SpecRouter: the hub with rate limiting skipped (NODE_ENV=development),  *)
(* serving POST requests with every model identifier of ModelIds.          *)
(* SpecLimiter: the hub in either mode, serving a few kinds of request     *)
(* from two IPs up to and past the limit, with the clock running.          *)
(***************************************************************************)
Rule(provider, prefixes) == [provider |-> provider, prefixes |-> prefixes]

\* The branches of each handler in the order the source declares them.
ChatRules ==
    << Rule("openai", {"gpt", "text-", "code-", "dall-e"}),
       Rule("anthropic", {"claude"}),
       Rule("google", {"gemini", "palm", "bert", "t5"}),
       Rule("meta", {"llama", "codellama"}),
       Rule("cohere", {"command", "base"}),
       Rule("mistral", {"mistral", "mixtral", "codestral"}),
       Rule("qwen", {"qwen"}),
       Rule("other", {"deepseek", "starcoder", "phi", "falcon", "yi"}) >>
ImageRules ==
    << Rule("openai", {"dall-e"}), Rule("stability", {"stable-diffusion"}),
       Rule("midjourney", {"midjourney"}), Rule("google", {"imagen"}),
       Rule("flux", {"flux"}), Rule("kandinsky", {"kandinsky"}) >>
DallERules == << Rule("openai", {"dall-e"}) >>
TranscriptionRules == << Rule("openai", {"whisper"}), Rule("google", {"google"}) >>
TranslationRules == << Rule("openai", {"whisper"}) >>
SpeechRules ==
    << Rule("openai", {"tts"}), Rule("elevenlabs", {"eleven"}), Rule("google", {"google"}) >>
EmbeddingRules ==
    << Rule("openai", {"text-embedding"}), Rule("cohere", {"embed-"}),
       Rule("google", {"text-embedding-004"}),
       Rule("huggingface", {"sentence-transformers", "e5-"}) >>

RulesOf(path) ==
    CASE path = "/v1/chat/completions" -> ChatRules
      [] path = "/v1/images/generations" -> ImageRules
      [] path = "/v1/images/edits" -> DallERules
      [] path = "/v1/images/variations" -> DallERules
      [] path = "/v1/audio/transcriptions" -> TranscriptionRules
      [] path = "/v1/audio/translations" -> TranslationRules
      [] path = "/v1/audio/speech" -> SpeechRules
      [] path = "/v1/embeddings" -> EmbeddingRules

AllRules ==
    {ChatRules, ImageRules, DallERules, TranscriptionRules, TranslationRules,
     SpeechRules, EmbeddingRules}
AllPrefixes == UNION {UNION {rules[i].prefixes : i \in 1..Len(rules)} : rules \in AllRules}

\* Model identifiers: each declared prefix alone, extended, cut short by one
\* character and preceded by a character; and some more.
ModelIds ==
    UNION {{p, p \o "-x1", SubSeq(p, 1, Len(p) - 1), "x" \o p} : p \in AllPrefixes}
        \cup {"", "unknown-model", "GPT-4", "gpt-4", "claude-3-opus", "deepseek-coder",
              "phi3-mini", "text-embedding-004", "text-embedding-3-small",
              "text-embedding-004-v2", "embed-english-v3", "codellama-34b"}

AuthHeaders ==
    {Undefined, "Basic sk-valid", "Bearer sk-valid", "Bearer sk-unknown",
     "Bearer  sk-valid", "Bearer"}

Bodies ==
    [hasModel : {TRUE}, model : ModelIds, hasMessages : BOOLEAN]
        \cup [hasModel : {FALSE}, model : {""}, hasMessages : BOOLEAN]

RouterRequests == [ip : {"10.0.0.1"}, path : PostRoutes, auth : AuthHeaders, body : Bodies]

LimiterRequests ==
    [ip : IPs, path : {"/v1/chat/completions"}, auth : {Undefined, "Bearer sk-valid"},
     body : [hasModel : {TRUE}, model : {"gpt-4", "unknown-model"}, hasMessages : {TRUE}]]

EnvConfigs == {{}, {"OPENAI_API_KEY"}, KnownEnv, KnownEnv \cup {"DEEPSEEK_API_KEY"}}

InitRouter ==
    /\ CallIdle
    /\ MemIdle
    /\ BotIdle
    /\ HubStart
    /\ models = <<>>
    /\ nodeEnv = "development"
    /\ configured \in EnvConfigs

InitLimiter ==
    /\ CallIdle
    /\ MemIdle
    /\ BotIdle
    /\ HubStart
    /\ models = <<>>
    /\ nodeEnv \in {"development", "production"}
    /\ configured = KnownEnv

RouterArrives ==
    /\ gpc = "idle"
    /\ \E req \in RouterRequests : HubArrive(req, MaxRouted)
    /\ UNCHANGED <<callVars, botVars, memVars>>
LimiterArrives ==
    /\ gpc = "idle"
    /\ \E req \in LimiterRequests : HubArrive(req, RateLimitMax + MaxOver)
    /\ UNCHANGED <<callVars, botVars, memVars>>
AuthResolves == (\E dbOk \in BOOLEAN : HubAuthLookup(dbOk)) /\ UNCHANGED <<callVars, botVars, memVars>>
UpstreamResolves ==
    (\E o \in UpstreamResults : HubUpstreamDone(o)) /\ UNCHANGED <<callVars, botVars, memVars>>
ClockTicks == HubTick /\ UNCHANGED <<callVars, botVars, memVars>>
ExchangeEnds == HubClose /\ UNCHANGED <<callVars, botVars, memVars>>

NextRouter == RouterArrives \/ AuthResolves \/ UpstreamResolves \/ ExchangeEnds
NextLimiter ==
    LimiterArrives \/ AuthResolves \/ UpstreamResolves \/ ExchangeEnds \/ ClockTicks

SpecRouter == InitRouter /\ [][NextRouter]_vars
SpecLimiter == InitLimiter /\ [][NextLimiter]_vars

(***************************************************************************)
(* SpecConcurrent: the hub with several requests in flight: the event loop *)
(* runs one request from await to await and may then turn to another.      *)
(***************************************************************************)
ConcurrentRequests ==
    [ip : {"10.0.0.1"}, path : {"/v1/chat/completions"}, auth : {"Bearer sk-valid"},
     body : [hasModel : {TRUE}, model : {"gpt-4", "claude-3-opus"}, hasMessages : {TRUE}]]

InitConcurrent ==
    /\ CallIdle
    /\ MemIdle
    /\ BotIdle
    /\ HubStart
    /\ models = <<>>
    /\ nodeEnv \in {"development", "production"}
    /\ configured = KnownEnv

ConcurrentArrives ==
    /\ gpc = "idle"
    /\ \E req \in ConcurrentRequests : HubArrive(req, RateLimitMax + MaxOver)
    /\ UNCHANGED <<callVars, botVars, memVars>>
Suspends == HubSuspend /\ UNCHANGED <<callVars, botVars, memVars>>
Resumes == (\E i \in 1..MaxSuspended : HubResume(i)) /\ UNCHANGED <<callVars, botVars, memVars>>

NextConcurrent ==
    \/ ConcurrentArrives
    \/ AuthResolves
    \/ UpstreamResolves
    \/ ExchangeEnds
    \/ ClockTicks
    \/ Suspends
    \/ Resumes

SpecConcurrent == InitConcurrent /\ [][NextConcurrent]_vars

(***************************************************************************)
(* SpecInterleaved: requests of the chatbot and of the hub in flight       *)
(* together; each program runs one request from await to await and may     *)
(* then turn to another of its requests.                                   *)
(***************************************************************************)
\* What a chatbot request that waits at an await keeps: the locals of POST
\* and of the makeApiCall it is in, and the errors thrown while it ran.
BotContext ==
    [hpc |-> hpc, hreq |-> hreq, response |-> response, imageUrl |-> imageUrl,
     hres |-> hres, cpc |-> cpc, maxRetries |-> maxRetries, attempt |-> attempt,
     result |-> result, events |-> events, outcomes |-> outcomes, errors |-> errors]

\* No chatbot request is being run.
BotFree ==
    /\ hpc' = "idle"
    /\ hreq' = NoRequest
    /\ response' = <<>>
    /\ imageUrl' = ""
    /\ hres' = NoResponse
    /\ cpc' = "idle"
    /\ maxRetries' = DefaultMaxRetries
    /\ attempt' = 0
    /\ result' = NoResult
    /\ events' = <<>>
    /\ outcomes' = <<>>
    /\ errors' = <<>>

AwaitingPcs ==
    {"chat_search", "chat_image", "chat_sarvam", "chat_file", "img_infip", "img_a4f"}

\* The request being run waits at an await of POST or of makeApiCall.
BotSuspend ==
    /\ hpc \in AwaitingPcs
    /\ Len(waiting) < MaxSuspended
    /\ waiting' = Append(waiting, BotContext)
    /\ BotFree
    /\ UNCHANGED <<env, draws, calls>>

\* A waiting request is taken up again.
BotResume(i) ==
    /\ hpc = "idle"
    /\ i \in 1..Len(waiting)
    /\ hpc' = waiting[i].hpc
    /\ hreq' = waiting[i].hreq
    /\ response' = waiting[i].response
    /\ imageUrl' = waiting[i].imageUrl
    /\ hres' = waiting[i].hres
    /\ cpc' = waiting[i].cpc
    /\ maxRetries' = waiting[i].maxRetries
    /\ attempt' = waiting[i].attempt
    /\ result' = waiting[i].result
    /\ events' = waiting[i].events
    /\ outcomes' = waiting[i].outcomes
    /\ errors' = waiting[i].errors
    /\ waiting' = SubSeq(waiting, 1, i - 1) \o SubSeq(waiting, i + 1, Len(waiting))
    /\ UNCHANGED <<env, draws, calls>>

\* The response has gone out; the request's locals are dropped.
BotClose ==
    /\ hpc = "done"
    /\ BotFree
    /\ UNCHANGED <<env, draws, calls, waiting>>

\* Chat requests that take the default branch, which draws a Sarvam key.
InterleavedChatRequests ==
    [route : {"chat"}, hasModes : {TRUE}, modes : {{}}, files : {0}, image : {FALSE},
     isUncontent : {FALSE}, useImagen3 : {FALSE}]

\* SARVAM_API_KEY_1 and SARVAM_API_KEY_2 are set, the other variables are not.
InterleavedPool ==
    [i \in 1..EnvSlots |-> IF i = 1 THEN "key-a" ELSE IF i = 2 THEN "key-b" ELSE Undefined]

\* The upstream answers at once, with success or with an error.
InterleavedOutcomes == {Response(200), Response(500)}

InitInterleaved ==
    /\ CallIdle
    /\ MemIdle
    /\ hpc = "idle"
    /\ hreq = NoRequest
    /\ response = <<>>
    /\ imageUrl = ""
    /\ hres = NoResponse
    /\ draws = <<>>
    /\ calls = <<>>
    /\ errors = <<>>
    /\ waiting = <<>>
    /\ env = [a4f |-> NoKeys, sarvam |-> InterleavedPool, infip |-> Undefined]
    /\ HubStart
    /\ models = <<>>
    /\ nodeEnv = "development"
    /\ configured = KnownEnv

InterleavedChatArrives ==
    /\ hpc = "idle"
    /\ Len(draws) < MaxDraws
    /\ \E req \in InterleavedChatRequests : ChatPOST(req)
    /\ UNCHANGED <<hubVars, waiting, memVars>>
InterleavedUpstreamAnswers ==
    (\E o \in InterleavedOutcomes : CallFetch(o)) /\ UNCHANGED <<botVars, hubVars, memVars>>
InterleavedHubArrives ==
    /\ gpc = "idle"
    /\ \E req \in ConcurrentRequests : HubArrive(req, MaxRouted)
    /\ UNCHANGED <<callVars, botVars, memVars>>
BotSuspends == BotSuspend /\ UNCHANGED <<hubVars, memVars>>
BotResumes == (\E i \in 1..MaxSuspended : BotResume(i)) /\ UNCHANGED <<hubVars, memVars>>
BotCloses == BotClose /\ UNCHANGED <<hubVars, memVars>>

NextInterleaved ==
    \/ InterleavedChatArrives
    \/ InterleavedUpstreamAnswers
    \/ SarvamResolves
    \/ BotSuspends
    \/ BotResumes
    \/ BotCloses
    \/ InterleavedHubArrives
    \/ AuthResolves
    \/ UpstreamResolves
    \/ ExchangeEnds
    \/ Suspends
    \/ Resumes

SpecInterleaved == InitInterleaved /\ [][NextInterleaved]_vars

(***************************************************************************)
(* SpecModels: the hub serving GET /v1/models from every small table.      *)
(***************************************************************************)
\* A JSON object is the sequence of its members in the order of Object.keys.
Member(key, value) == [key |-> key, value |-> value]

Categories == <<"chat", "image">>
Providers == <<"openai", "google">>
ModelNames == {"gpt-4", "gemini-pro"}
ModelLists == UNION {[1..n -> ModelNames] : n \in 0..MaxListed}

Tables ==
    {[k \in 1..Len(Categories) |->
         Member(Categories[k],
                [j \in 1..Len(Providers) |-> Member(Providers[j], lists[k][j])])] :
       lists \in [1..Len(Categories) -> [1..Len(Providers) -> ModelLists]]}

ModelsRequests ==
    [ip : {"10.0.0.1"}, path : {ModelsRoute},
     auth : {Undefined, "Bearer sk-valid", "Bearer sk-unknown"},
     body : {[hasModel |-> FALSE, model |-> "", hasMessages |-> FALSE]}]

InitModels ==
    /\ CallIdle
    /\ MemIdle
    /\ BotIdle
    /\ HubStart
    /\ models \in Tables
    /\ nodeEnv \in {"development", "production"}
    /\ configured = KnownEnv

ModelsArrives ==
    /\ gpc = "idle"
    /\ \E req \in ModelsRequests : HubArrive(req, MaxListings)
    /\ UNCHANGED <<callVars, botVars, memVars>>

NextModels == ModelsArrives \/ ExchangeEnds

SpecModels == InitModels /\ [][NextModels]_vars

(***************************************************************************)
(* Properties of the prefix routing (checked under SpecRouter).            *)
(***************************************************************************)
\* p is a literal prefix of m, character by character.
IsLiteralPrefix(p, m) ==
    /\ Len(p) <= Len(m)
    /\ \A i \in 1..Len(p) : SubSeq(m, i, i) = SubSeq(p, i, i)

MatchingRules(rules, m) ==
    {i \in 1..Len(rules) : \E p \in rules[i].prefixes : IsLiteralPrefix(p, m)}

FirstMatch(rules, m) ==
    LET S == MatchingRules(rules, m) IN
    IF S = {} THEN "UnsupportedModel"
    ELSE rules[CHOOSE i \in S : \A j \in S : i <= j].provider

\* Where the requests of each provider go.
Origin(provider) ==
    CASE provider = "openai" -> "https://api.openai.com/v1/"
      [] provider = "anthropic" -> "https://api.anthropic.com/"
      [] provider = "meta" -> "https://api.meta.ai/"
      [] provider = "cohere" -> "https://api.cohere.ai/"
      [] provider = "mistral" -> "https://api.mistral.ai/"
      [] provider = "qwen" -> "https://api.qwen.ai/"
      [] provider = "stability" -> "https://api.stability.ai/"
      [] provider = "midjourney" -> "https://api.midjourney.com/"
      [] provider = "flux" -> "https://api.flux.ai/"
      [] provider = "kandinsky" -> "https://api.kandinsky.ai/"
      [] provider = "elevenlabs" -> "https://api.elevenlabs.io/"
      [] provider = "huggingface" -> "https://api-inference.huggingface.co/"
      [] provider = "other" -> "https://api."
      [] provider = "google" -> "https://"

Entered(stage) == \E i \in 1..Len(ran) : ran[i] = stage
Handled == Entered("handler") /\ greq.body.hasModel

\* C1: a request that reaches a handler with model identifier m (and the body
\* fields the chosen branch reads) is sent to the provider of the first branch,
\* in the order the handler declares them, one of whose prefixes is a literal
\* prefix of m, and to that provider's endpoint; when no prefix of any branch
\* matches, nothing is sent and the answer is the 400 'unsupported' error.
C1_FirstMatchDispatch ==
    (Handled /\ greq.body.hasMessages) =>
        LET provider == FirstMatch(RulesOf(greq.path), greq.body.model) IN
        IF provider = "UnsupportedModel"
          THEN /\ sent = <<>>
               /\ gpc = "done"
               /\ gres.status = 400
          ELSE /\ Len(sent) = 1
               /\ sent[1].family = provider
               /\ IsLiteralPrefix(Origin(provider), sent[1].url)

\* Two branches match and the one declared first is taken.
C1_Witness ==
    /\ Handled
    /\ greq.path = "/v1/embeddings"
    /\ greq.body.model = "text-embedding-004"
    /\ Cardinality(MatchingRules(RulesOf(greq.path), greq.body.model)) = 2
    /\ Len(sent) = 1
    /\ sent[1].family = "openai"

\* C2: on every /v1 POST route a model identifier that no declared prefix
\* matches is answered 400 and no upstream request is issued for it (there is no
\* default provider); on the image edits and variations routes this holds of
\* every identifier that does not start with 'dall-e'.
C2_UnmatchedIs400 ==
    /\ (Handled /\ MatchingRules(RulesOf(greq.path), greq.body.model) = {})
           => /\ gpc = "done"
              /\ gres.status = 400
              /\ sent = <<>>
              /\ ~Entered("upstream")
    /\ (/\ Handled
        /\ greq.path \in {"/v1/images/edits", "/v1/images/variations"}
        /\ ~IsLiteralPrefix("dall-e", greq.body.model))
           => /\ gpc = "done"
              /\ gres.status = 400
              /\ sent = <<>>
              /\ ~Entered("upstream")

\* An identifier the generations route accepts is refused by the edits route.
C2_Witness ==
    /\ Handled
    /\ greq.path = "/v1/images/edits"
    /\ greq.body.model = "stable-diffusion-x1"
    /\ gres.status = 400
    /\ sent = <<>>

C11_RefusesOnlyOwnWindow ==
    \A ip \in IPs :
        /\ arrivals[ip] <= RateLimitMax => admitted[ip] = arrivals[ip]
        /\ arrivals[ip] > RateLimitMax => admitted[ip] >= RateLimitMax

\* In a later window an IP that was refused before is served while the other
\* IP is over the limit.
C11_Witness ==
    /\ nodeEnv = "production"
    /\ windowStart > 0
    /\ gpc = "done"
    /\ greq.ip = "10.0.0.1"
    /\ greq.ip \in limited
    /\ gres.status = 200
    /\ arrivals["10.0.0.2"] > RateLimitMax
    /\ admitted["10.0.0.2"] = RateLimitMax

\* C12: with NODE_ENV = 'development' the limiter refuses no request, however
\* many requests an IP has made.
C12_DevelopmentNeverLimited ==
    nodeEnv = "development" =>
        /\ gres.status # 429
        /\ limited = {}
        /\ \A ip \in IPs : admitted[ip] = arrivals[ip] /\ hits[ip] = 0

\* The 102nd request of an IP is served.
C12_Witness ==
    /\ nodeEnv = "development"
    /\ gpc = "done"
    /\ arrivals[greq.ip] = RateLimitMax + 2
    /\ gres.status = 200


(***************************************************************************)
(* Properties of requests in flight together (checked under                *)
(* SpecConcurrent).                                                        *)
(***************************************************************************)
\* The requests in flight: the one being served and those that wait.
InFlight ==
    (IF gpc = "idle" THEN {} ELSE {Context(gpc, greq, gres, guser, ran, sent)})
        \cup {others[i] : i \in 1..Len(others)}

BearerForm(h) == h # Undefined /\ IsLiteralPrefix("Bearer ", h)
\* What follows 'Bearer ' in the header.
HeaderToken(h) == SubSeq(h, Len("Bearer ") + 1, Len(h))
\* The header carries a key of the APIKey collection.
HasValidKey(h) == BearerForm(h) /\ \E k \in store : k.key = HeaderToken(h)
OwnerOf(h) == (CHOOSE k \in store : k.key = HeaderToken(h)).user
Times(stage) == Cardinality({i \in 1..Len(ran) : ran[i] = stage})
Guarded == gpc # "idle" /\ greq.path \in PostRoutes

\* C14 as claimed: a request to a guarded route without a header or with a
\* token that is not in the key store is answered 401 and never enters the
\* route handler.
C14_UnauthenticatedGets401 ==
    (Guarded /\ ~HasValidKey(greq.auth)) =>
        /\ ~Entered("handler")
        /\ sent = <<>>
        /\ gpc \in {"auth", "done"}
        /\ gpc = "done" => gres.status = 401

\* C14, amended: a request that reaches the auth middleware of a guarded route
\* without a header or with a token that is not in the key store never enters
\* the route handler (no routing, no upstream request, no req.user); it is
\* answered 401, or 500 'Server error' when the lookup in the key store fails.
C14_UnauthenticatedNeverHandled ==
    (Guarded /\ ~HasValidKey(greq.auth)) =>
        /\ ~Entered("handler")
        /\ sent = <<>>
        /\ guser = Undefined
        /\ gpc \in {"auth", "done"}
        /\ gpc = "done" =>
              \/ gres.status = 401
              \/ BearerForm(greq.auth) /\ gres = HubRes(500, "Server error")

\* An unknown token on a request the router could serve is answered 401.
C14_Witness ==
    /\ Guarded
    /\ greq.auth = "Bearer sk-unknown"
    /\ greq.body.model = "gpt-4"
    /\ greq.path = "/v1/chat/completions"
    /\ gpc = "done"
    /\ gres.status = 401
    /\ ran = <<"limiter", "auth">>

\* C15 as claimed: auth has exactly three outcomes: 401 'Unauthorized' for a
\* header that is absent or does not start with 'Bearer ', 401 'Invalid API
\* key' for a token that is not found, and for a token that is found req.user
\* set to the owner and next called once with no response sent by auth.
C15_ThreeAuthOutcomes ==
    (Guarded /\ gpc # "auth") =>
        IF ~BearerForm(greq.auth)
          THEN gres = HubRes(401, "Unauthorized") /\ ~Entered("handler")
                 /\ guser = Undefined
        ELSE IF ~HasValidKey(greq.auth)
          THEN gres = HubRes(401, "Invalid API key") /\ ~Entered("handler")
                 /\ guser = Undefined
        ELSE guser = OwnerOf(greq.auth) /\ Times("handler") = 1
                 /\ gres.status # 401

\* C15, amended: auth has four outcomes: the three above when the lookup in the
\* key store succeeds, and 500 'Server error' with req.user unset and next not
\* called when the lookup fails, whether or not the token is in the store.
C15_FourAuthOutcomes ==
    (Guarded /\ gpc # "auth") =>
        IF ~BearerForm(greq.auth)
          THEN gres = HubRes(401, "Unauthorized") /\ ~Entered("handler")
                 /\ guser = Undefined
        ELSE IF ~Entered("handler")
          THEN /\ guser = Undefined
               /\ \/ gres = HubRes(401, "Invalid API key") /\ ~HasValidKey(greq.auth)
                  \/ gres = HubRes(500, "Server error")
        ELSE HasValidKey(greq.auth) /\ guser = OwnerOf(greq.auth)
                 /\ Times("handler") = 1 /\ gres.status # 401

\* A key of the store: req.user is its owner and the handler has been called.
C15_Witness ==
    /\ Guarded
    /\ greq.auth = "Bearer sk-valid"
    /\ guser = "user-1"
    /\ Times("handler") = 1
    /\ Times("auth") = 1
    /\ gpc = "upstream"


(***************************************************************************)
(* Properties of GET /v1/models (checked under SpecModels).                *)
(***************************************************************************)
UnderV1(path) == IsLiteralPrefix("/v1/", path)

\* C16: every route under /v1/, GET /v1/models included, answers a request
\* without a valid 'Authorization: Bearer <key>' header with 401 and sends it
\* no data.
C16_EveryV1RouteNeedsKey ==
    (gpc = "done" /\ UnderV1(greq.path) /\ ~HasValidKey(greq.auth)) =>
        /\ gres.status = 401
        /\ payload = <<>>

\* The (category, provider, model) triples the table declares, and how often
\* the list of a provider names a model.
Listed(table, t) ==
    Cardinality({<<k, j, i>> \in (1..Len(table)) \X (1..Len(Providers)) \X (1..MaxListed) :
                    /\ i <= Len(table[k].value[j].value)
                    /\ <<table[k].key, table[k].value[j].key, table[k].value[j].value[i]>> = t})
TripleOf(entry) == <<entry.category, entry.owned_by, entry.id>>
EntriesOf(t) == Cardinality({i \in 1..Len(payload) : TripleOf(payload[i]) = t})
AllTriples ==
    {<<Categories[k], Providers[j], m>> :
        k \in 1..Len(Categories), j \in 1..Len(Providers), m \in ModelNames}
Declared(table) == {t \in AllTriples : Listed(table, t) > 0}
ModelsServed == gpc = "done" /\ greq.path = ModelsRoute /\ gres.status = 200

UpstreamFailed ==
    /\ calls # <<>>
    /\ \/ result.kind = "thrown"
       \/ result.kind = "response" /\ ~IsOk(result.status)

\* C18 (checked under SpecChatbot): a request whose upstream call ended in
\* failure is answered 500; no handler answers it 200 with other content.
C18_UpstreamFailureAnswers500 ==
    (hpc = "done" /\ UpstreamFailed) => hres.status = 500

\* C19 (checked under SpecRouter): an authenticated POST whose body has no
\* model is answered 400 by the handler, with no upstream request; the handler
\* never ends without a response.
C19_MissingModelGets400 ==
    (Guarded /\ Entered("handler") /\ ~greq.body.hasModel) =>
        /\ gpc = "done"
        /\ gres.status = 400
        /\ sent = <<>>


(***************************************************************************)
(* Properties of requests of both programs in flight together (checked     *)
(* under SpecInterleaved).                                                 *)
(***************************************************************************)
\* C20: with requests in flight together, in every order of their steps: the
\* credential pools, the environment and the key store stay what they were at
\* startup; each draw is made from the whole startup pool and each upstream call
\* of the chatbot carries the key its own request drew; and the upstream request
\* built for a hub request is the one its own path and body determine (the
\* provider of the first matching branch), whatever the other requests hold.
C20_NoInterference ==
    /\ env = [a4f |-> NoKeys, sarvam |-> InterleavedPool, infip |-> Undefined]
    /\ configured = KnownEnv
    /\ store = InitialStore
    /\ Len(calls) = Len(draws)
    /\ \A i \in 1..Len(draws) :
          /\ draws[i].pool = FilterKeys(InterleavedPool)
          /\ \E j \in 1..Len(draws[i].pool) : draws[i].pool[j] = draws[i].key
          /\ calls[i].key = draws[i].key
    /\ \A c \in InFlight :
          c.sent # <<>> =>
              /\ Len(c.sent) = 1
              /\ c.sent[1] = Handler(c.req.path, c.req.body)
              /\ c.sent[1].family = FirstMatch(RulesOf(c.req.path), c.req.body.model)

\* Two chat requests in flight have drawn the same key, and two hub requests
\* in flight for different models wait for different providers.
C20_Witness ==
    /\ Len(waiting) = 1
    /\ waiting[1].hpc = "chat_sarvam"
    /\ hpc = "chat_sarvam"
    /\ Len(draws) = 2
    /\ draws[1].index = draws[2].index
    /\ calls[1].key = calls[2].key
    /\ Len(others) = 1
    /\ others[1].pc = "upstream"
    /\ gpc = "upstream"
    /\ others[1].req.body.model # greq.body.model
    /\ others[1].sent[1].family # sent[1].family


(***************************************************************************)
(* Properties of the chatbot handlers (checked under SpecChatbot).         *)
(***************************************************************************)
\* C21: when the file-analysis step of POST /api/chat ends, the handler answers
\* 200 and the response still begins with the whole primary response; when the
\* step failed (its fetch threw, its body could not be used, or its answer was
\* not ok) what follows the primary response is at most the placeholder and the
\* image note, never an analysis.
C21_FileFailureKeepsPrimary ==
    [][(hpc = "chat_file" /\ hpc' = "done") =>
          /\ hres'.status = 200
          /\ Len(response') >= Len(response)
          /\ SubSeq(response', 1, Len(response)) = response
          /\ LET added == SubSeq(response', Len(response) + 1, Len(response'))
                 note == IF hreq.image THEN <<"image-analysis">> ELSE <<>>
             IN
             /\ added \in {note, <<"files-pending">> \o note, <<"files-analyzed">> \o note}
             /\ errors' # errors => added = <<"files-pending">> \o note]_vars

\* The Sarvam answer is kept and the placeholder follows it.
C21_Witness ==
    /\ hpc = "done"
    /\ hreq.files > 0
    /\ errors = <<"fileError">>
    /\ hres.status = 200
    /\ response = <<"sarvam-content", "files-pending">>


SpecCallFair ==
    /\ InitCall
    /\ [][NextCall]_vars
    /\ WF_vars(FetchAny)
    /\ WF_vars(WaitDone)

Max(a, b) == IF a >= b THEN a ELSE b
LastEvent == events[Len(events)]

\* C23: for every maxRetries >= 0 and every sequence of upstream outcomes, a
\* call of makeApiCall that was entered ends (returns or throws); it never
\* issues more than maxRetries fetches nor sets more than maxRetries - 1 backoff
\* timers (none when maxRetries = 0); when it has ended its last event, if any,
\* is a fetch and not a timer; and with maxRetries = 0 it ends by throwing
\* 'Max retries exceeded' without any fetch.
C23_TerminatesWithinBudget ==
    /\ [](/\ Cardinality(Attempts) <= maxRetries
          /\ Len(Waits) <= Max(maxRetries - 1, 0)
          /\ (Finished /\ events # <<>>) => LastEvent.type = "attempt"
          /\ (cpc # "idle" /\ maxRetries = 0)
                => /\ cpc = "thrown"
                   /\ result = Thrown(MaxRetriesExceeded)
                   /\ events = <<>>
                   /\ outcomes = <<>>)
    /\ (cpc # "idle") ~> Finished

C23_Witness ==
    /\ Finished
    /\ maxRetries = MaxRetriesBound
    /\ Cardinality(Attempts) = maxRetries
    /\ Len(Waits) = maxRetries - 1
    /\ AllTransient

C23_WitnessZero == cpc = "thrown" /\ maxRetries = 0 /\ events = <<>>


(***************************************************************************)
(* Credentials over the retries of one request (checked under SpecChatbot).*)
(***************************************************************************)
DrawsOf(provider) == {i \in 1..Len(draws) : draws[i].provider = provider}
Retrying == cpc \in {"fetch", "wait"}

PastInfip == hreq.route = "image" /\ hpc \in {"img_a4f", "done"}
InfipGaveUrl == imageUrl = "infip-url"
Drew(provider) == DrawsOf(provider) # {}
A4FStageErrors ==
    {NoA4FKeys, A4FApiError, NoImage, "SyntaxError", MaxRetriesExceeded, "ECONNREFUSED"}

C26_WitnessInfipUrl == PastInfip /\ InfipGaveUrl /\ ~Called("a4f") /\ hres.status = 200


(***************************************************************************)
(* SpecKeys: the hub serving key management (/keys), /v1 requests that     *)
(* present the keys, and the routes / and /auth, with several requests in  *)
(* flight.                                                                 *)
(***************************************************************************)
MaxManaged == 3

NoBody == [hasModel |-> FALSE, model |-> "", hasMessages |-> FALSE]
JwtHeaders ==
    {Undefined, "Bearer jwt-user-1", "Bearer jwt-user-2", "Bearer jwt-forged", "jwt-user-1"}
Secrets == {"sk-valid", "sk-new"}
\* The ids a client may name: ids of stored keys, an id of no key, and a string
\* that is no ObjectId (0).
NamedIds == {0, 99} \cup {k.id : k \in store}

KeysRequests ==
    [ip : {"10.0.0.1"}, method : {"GET"}, path : {KeysRoute}, auth : JwtHeaders,
     id : {0}, rand : {""}, body : {NoBody}]
      \cup [ip : {"10.0.0.1"}, method : {"POST"}, path : {KeysRoute}, auth : JwtHeaders,
            id : {0}, rand : Secrets, body : {NoBody}]
      \cup [ip : {"10.0.0.1"}, method : {"DELETE"}, path : {KeysRoute}, auth : JwtHeaders,
            id : NamedIds, rand : {""}, body : {NoBody}]

KeyedRequests ==
    [ip : {"10.0.0.1"}, method : {"POST"}, path : {"/v1/chat/completions"},
     auth : {Undefined} \cup {"Bearer " \o k : k \in Secrets}, id : {0}, rand : {""},
     body : {[hasModel |-> TRUE, model |-> "gpt-4", hasMessages |-> TRUE]}]

OpenRequests ==
    [ip : {"10.0.0.1"}, method : {"GET"}, path : {RootRoute}, auth : {Undefined},
     id : {0}, rand : {""}, body : {NoBody}]
      \cup [ip : {"10.0.0.1"}, method : {"POST"}, path : {AuthRoute}, auth : {Undefined},
            id : {0}, rand : {""}, body : {NoBody}]

InitKeys ==
    /\ CallIdle
    /\ MemIdle
    /\ BotIdle
    /\ HubStart
    /\ models = <<>>
    /\ nodeEnv \in {"development", "production"}
    /\ configured = KnownEnv

KeysArrives ==
    /\ gpc = "idle"
    /\ \E req \in KeysRequests \cup KeyedRequests \cup OpenRequests :
          HubArrive(req, MaxManaged)
    /\ UNCHANGED <<callVars, botVars, memVars>>
KeysDbResolves ==
    (\E dbOk \in BOOLEAN : KeysDbDone(dbOk)) /\ UNCHANGED <<callVars, botVars, memVars>>

NextKeys ==
    \/ KeysArrives
    \/ KeysDbResolves
    \/ AuthResolves
    \/ UpstreamResolves
    \/ ExchangeEnds
    \/ Suspends
    \/ Resumes

SpecKeys == InitKeys /\ [][NextKeys]_vars

KeysTypeOK == gpc \in {"idle", "auth", "upstream", "done", "hung"} \cup KeysAwaits


(***************************************************************************)
(* The order of the middleware and the counting of requests (SpecKeys).    *)
(***************************************************************************)
\* A step in which the hub takes in a new request.
Arrival == gpc = "idle" /\ others' = others /\ greq' # NoHubRequest

\* The stages of one request ran in the order of server.js: the limiter first,
\* then the gate of the router, then the handler.
InOrder(stages, req) ==
    /\ stages # <<>> => stages[1] = "limiter"
    /\ \A i \in 1..Len(stages) :
          /\ stages[i] \in {"auth", "verifyToken"} => i = 2
          /\ (stages[i] = "handler" /\ req.path \in PostRoutes)
                => (i = 3 /\ stages[2] = "auth")
          /\ (stages[i] = "handler" /\ req.path = KeysRoute)
                => (i = 3 /\ stages[2] = "verifyToken")

C25_WitnessKeys ==
    /\ nodeEnv = "production"
    /\ greq.path = KeysRoute
    /\ gres = HubRes(401, "No token")
    /\ hits[greq.ip] = MaxManaged


(***************************************************************************)
(* Key management per user (checked under SpecKeys).                       *)
(***************************************************************************)
ValidJwts == {"jwt-user-1", "jwt-user-2"}
HasValidJwt(req) == req.auth # Undefined /\ TokenOf(req.auth) \in ValidJwts
OwnerOfJwt(req) == IF TokenOf(req.auth) = "jwt-user-1" THEN "user-1" ELSE "user-2"
Removed == store \ store'
Added == store' \ store

C29_WitnessList ==
    /\ gpc = "done"
    /\ greq.method = "GET"
    /\ guser = "user-2"
    /\ payload = <<{}>>
    /\ store # {}


(***************************************************************************)
(* The lifetime of a client API key (checked under SpecKeys).              *)
(***************************************************************************)
StoredSecrets == {k.key : k \in store}
\* APIKey.findOne of the request being served answers in this step.
LookupAnswers == gpc = "auth" /\ gpc' \notin {"auth", "idle"} /\ gres' # HubRes(500, "Server error")

C30_WitnessDeleted ==
    /\ greq.auth = "Bearer sk-valid"
    /\ gres = HubRes(401, "Invalid API key")
    /\ store = {}


(***************************************************************************)
(* The chatbot's /api/memory route: GET, POST (save, clear, search) and    *)
(* DELETE over the module-level array conversationHistory.                 *)
(***************************************************************************)
HistoryCap == 1000
MaxMemoryOps == 3

Min(a, b) == IF a <= b THEN a ELSE b

\* A JavaScript number: an integer or NaN.
NaN == [nan |-> TRUE, value |-> 0]
Num(v) == [nan |-> FALSE, value |-> v]

IsDigit(c) == c \in {"0", "1", "2", "3", "4", "5", "6", "7", "8", "9"}
DigitValue(c) ==
    CASE c = "0" -> 0 [] c = "1" -> 1 [] c = "2" -> 2 [] c = "3" -> 3 [] c = "4" -> 4
      [] c = "5" -> 5 [] c = "6" -> 6 [] c = "7" -> 7 [] c = "8" -> 8 [] OTHER -> 9

\* The value of the longest run of digits of s that starts at position i.
RECURSIVE ParseDigits(_, _, _)
ParseDigits(s, i, acc) ==
    IF i > Len(s) \/ ~IsDigit(SubSeq(s, i, i)) THEN acc
    ELSE ParseDigits(s, i + 1, acc * 10 + DigitValue(SubSeq(s, i, i)))

\* parseInt(s) of a string without leading white space: an optional sign, then
\* the longest run of digits; NaN when there is no digit.
ParseInt(s) ==
    LET signed == Len(s) >= 1 /\ SubSeq(s, 1, 1) \in {"-", "+"}
        first == IF signed THEN 2 ELSE 1
    IN IF first > Len(s) \/ ~IsDigit(SubSeq(s, first, first)) THEN NaN
       ELSE IF signed /\ SubSeq(s, 1, 1) = "-" THEN Num(0 - ParseDigits(s, first, 0))
       ELSE Num(ParseDigits(s, first, 0))

\* The unary minus of `-limit`
Negate(x) == IF x.nan THEN NaN ELSE Num(0 - x.value)

\* Array.prototype.slice(start): NaN counts as 0, a negative start counts from
\* the end, and the start is clamped to the array.
SliceFrom(arr, start) ==
    LET rel == IF start.nan THEN 0 ELSE start.value
        k == IF rel < 0 THEN Max(Len(arr) + rel, 0) ELSE Min(rel, Len(arr))
    IN SubSeq(arr, k + 1, Len(arr))

\* searchParams.get('limit') || '50'   (get answers null for an absent parameter)
LimitText(q) == IF q = Null \/ q = "" THEN "50" ELSE q

\* conversationHistory.slice(-limit)
RecentHistory(h, q) == SliceFrom(h, Negate(ParseInt(LimitText(q))))

\* if (conversationHistory.length > 1000) conversationHistory = ....slice(-1000)
KeepRecentMutOldest(h) == IF Len(h) > HistoryCap THEN SubSeq(h, 1, HistoryCap) ELSE h
KeepRecent(h) == IF Len(h) > HistoryCap THEN SliceFrom(h, Num(0 - HistoryCap)) ELSE h

MemRes(op, q, isArray, batch, status, list, total) ==
    [op |-> op, limit |-> q, isArray |-> isArray, batch |-> batch, status |-> status,
     list |-> list, total |-> total]

\* GET /api/memory?limit=q
MemoryGET(q) ==
    /\ mres' = MemRes("GET", q, FALSE, <<>>, 200, RecentHistory(conversationHistory, q),
                      Len(conversationHistory))
    /\ UNCHANGED <<conversationHistory, pushed, memOps>>

\* The messages of one save: size messages nobody sent before, in their order.
Batch(size) == [i \in 1..size |-> pushed + i]

\* POST /api/memory {action: 'save', messages}; isArray: messages is an array
MemorySave(size, isArray) ==
    /\ memOps < MaxMemoryOps
    /\ memOps' = memOps + 1
    /\ IF isArray
         THEN /\ conversationHistory' = KeepRecent(conversationHistory \o Batch(size))
              /\ pushed' = pushed + size
              /\ mres' = MemRes("save", Null, TRUE, Batch(size), 200, <<>>,
                                Len(conversationHistory'))
         ELSE /\ UNCHANGED <<conversationHistory, pushed>>
              /\ mres' = MemRes("save", Null, FALSE, <<>>, 200, <<>>,
                                Len(conversationHistory))

\* POST /api/memory {action: 'clear'}
MemoryClear ==
    /\ memOps < MaxMemoryOps
    /\ memOps' = memOps + 1
    /\ conversationHistory' = <<>>
    /\ mres' = MemRes("clear", Null, FALSE, <<>>, 200, <<>>, 0)
    /\ UNCHANGED pushed

\* POST /api/memory {action: 'search', query}; outcome: "found" (the filter ran),
\* "no-query" (400) or "throws" (a message whose content is no string: 500)
MemorySearch(outcome) ==
    /\ mres' = MemRes("search", Null, FALSE, <<>>,
                      CASE outcome = "found" -> 200 [] outcome = "no-query" -> 400
                        [] OTHER -> 500,
                      <<>>, Len(conversationHistory))
    /\ UNCHANGED <<conversationHistory, pushed, memOps>>

\* POST /api/memory with another action (400) or a body that is no JSON (500)
MemoryReject(status) ==
    /\ mres' = MemRes("invalid", Null, FALSE, <<>>, status, <<>>, Len(conversationHistory))
    /\ UNCHANGED <<conversationHistory, pushed, memOps>>

\* DELETE /api/memory
MemoryDELETE ==
    /\ memOps < MaxMemoryOps
    /\ memOps' = memOps + 1
    /\ conversationHistory' = <<>>
    /\ mres' = MemRes("DELETE", Null, FALSE, <<>>, 200, <<>>, 0)
    /\ UNCHANGED pushed

(***************************************************************************)
(* SpecMemory: every sequence of requests to /api/memory with batches that *)
(* stay under, reach and pass the cap.                                     *)
(***************************************************************************)
LimitParams == {Null, "", "0", "1", "2", "50", "1001", "abc", "-2"}
BatchSizes == {0, 1, 2, HistoryCap - 1, HistoryCap + 1}

InitMemory == CallIdle /\ BotIdle /\ HubIdle /\ MemIdle

MemGets ==
    (\E q \in LimitParams : MemoryGET(q)) /\ UNCHANGED <<callVars, botVars, hubVars>>
MemSaves ==
    (\E size \in BatchSizes, isArray \in BOOLEAN : MemorySave(size, isArray))
        /\ UNCHANGED <<callVars, botVars, hubVars>>
MemClears == MemoryClear /\ UNCHANGED <<callVars, botVars, hubVars>>
MemSearches ==
    (\E o \in {"found", "no-query", "throws"} : MemorySearch(o))
        /\ UNCHANGED <<callVars, botVars, hubVars>>
MemRejects ==
    (\E status \in {400, 500} : MemoryReject(status))
        /\ UNCHANGED <<callVars, botVars, hubVars>>
MemDeletes == MemoryDELETE /\ UNCHANGED <<callVars, botVars, hubVars>>

NextMemory ==
    \/ MemGets
    \/ MemSaves
    \/ MemClears
    \/ MemSearches
    \/ MemRejects
    \/ MemDeletes

SpecMemory == InitMemory /\ [][NextMemory]_vars

\* The last n elements of a sequence, in their order (all of it when it has
\* fewer than n).
LastN(seq, n) ==
    LET k == Min(n, Len(seq)) IN [i \in 1..k |-> seq[Len(seq) - k + i]]

\* C27: the history never holds more than 1000 messages; a save of an array
\* leaves the last min(1000, old length + batch length) messages of the old
\* history followed by the batch, in that order; clear and DELETE leave it
\* empty; every other request (GET, search, a save without an array, an invalid
\* action) leaves it as it was.
C27_HistoryCapped ==
    /\ [](Len(conversationHistory) <= HistoryCap)
    /\ [][/\ (mres'.op = "save" /\ mres'.isArray /\ memOps' # memOps)
               => conversationHistory' =
                     LastN(conversationHistory \o mres'.batch, HistoryCap)
          /\ (mres'.op \in {"clear", "DELETE"} /\ memOps' # memOps)
               => conversationHistory' = <<>>
          /\ (memOps' = memOps \/ (mres'.op = "save" /\ ~mres'.isArray))
               => conversationHistory' = conversationHistory]_vars

C27_Witness ==
    /\ mres.op = "save"
    /\ Len(mres.batch) = 2
    /\ pushed = HistoryCap + 1
    /\ Len(conversationHistory) = HistoryCap
    /\ conversationHistory[1] = 2
    /\ conversationHistory[HistoryCap] = HistoryCap + 1

\* C28: a GET with limit = n, n an integer >= 0 (50 when the parameter is
\* absent), answers with the last min(n, total) messages of the history, in
\* order, and so with no more than n messages.
C28_LimitReturnsMostRecent ==
    (mres.op = "GET" /\ mres.limit \in {Null, "0", "1", "2", "50", "1001"})
        => LET n == CASE mres.limit = Null -> 50 [] mres.limit = "0" -> 0
                      [] mres.limit = "1" -> 1 [] mres.limit = "2" -> 2
                      [] mres.limit = "50" -> 50 [] OTHER -> 1001
           IN /\ mres.list = LastN(conversationHistory, n)
              /\ Len(mres.list) <= n

====
